---- MODULE Spec2Model ----
(***************************************************************************)
(* Model of the cross-chain identity hub.                                  *)
(*                                                                         *)
(* On-chain part: contracts/CrossChainResolver.sol, driven by externally   *)
(* owned accounts, with the ENS registry it consults                       *)
(* (contracts/test/Resolver.t.sol, MockENSRegistry).                       *)
(*                                                                         *)
(* Every transaction is atomic: a revert restores the contract storage and *)
(* discards the logs of the transaction.  The variable lastCall is the     *)
(* receipt of the most recent call to the resolver (who called what, the   *)
(* typed error or the returned values) and emitted is the list of log      *)
(* entries of that transaction; the chain's event log is the concatenation *)
(* of the emitted lists in transaction order.                              *)
(***************************************************************************)
EXTENDS Integers, Sequences, FiniteSets, TLC

VARIABLES
    owners,             \* MockENSRegistry.owners : node -> address
    verifiedAddresses,  \* node -> chainId -> VerifiedAddress
    hasVerifiedAddress, \* node -> chainId -> bool
    nodeChainIds,       \* node -> string[]
    chainIdIndex,       \* node -> chainId -> uint256 (0-based slot)
    lastCall,           \* receipt of the last resolver call
    emitted,            \* log entries of the last resolver call
    ipfsService,        \* services/ipfs.js: the singleton's useRealIPFS, ipfsClient
    inflight,           \* /verify handlers suspended at the await of the upload
    response,           \* the last response the service sent
    issued,             \* history: the nonces the service issued
    verifications,      \* history: the verifications the service logged
    superseded          \* history: bindings stored once and since replaced

registry == <<verifiedAddresses, hasVerifiedAddress, nodeChainIds, chainIdIndex>>
onchain == <<owners, verifiedAddresses, hasVerifiedAddress, nodeChainIds,
             chainIdIndex, lastCall, emitted>>
backend == <<ipfsService, inflight, response>>
history == <<issued, verifications, superseded>>
vars == <<owners, verifiedAddresses, hasVerifiedAddress, nodeChainIds,
          chainIdIndex, lastCall, emitted, ipfsService, inflight, response,
          issued, verifications, superseded>>

-----------------------------------------------------------------------------
(* Input domains.                                                          *)

ZeroAddress == "0x0"
NODE_OWNER  == "0x1"
NON_OWNER   == "0x2"
\* the externally owned accounts 0x1 .. : they send the calls and own the nodes
NumAccounts == 2
Accounts    == {"0x" \o ToString(i) : i \in 1..NumAccounts}

TEST_NODE   == "alice.eth"
TEST_NODE_2 == "bob.eth"
Nodes       == {TEST_NODE, TEST_NODE_2}

BITCOIN_CHAIN == "bitcoin"
SOLANA_CHAIN  == "solana"
LongChainId   == "this_is_a_very_long_chain_id_that_might_cause_issues_with_gas_usage_and_storage_but_should_still_work_correctly"
ChainIds      == {"", BITCOIN_CHAIN, SOLANA_CHAIN, LongChainId}

\* The chain ids the callers submit for a node: every one for TEST_NODE, one
\* for TEST_NODE_2.
ChainInputs(node) ==
    IF node = TEST_NODE THEN ChainIds ELSE {BITCOIN_CHAIN}

BITCOIN_ADDR == "1A1zP1eP5QGefi2DMPTfTL5SLmv7DivfNa"
LongAddr     == "this_is_a_very_long_address_that_might_cause_issues_with_gas_usage_and_storage_but_should_still_work_correctly"

ZeroHash     == "0x00"
PROOF_HASH_1 == "keccak256(proof1)"
\* The (addr, proofHash, verifiedAt) submissions of the callers: one with an
\* empty address, one as the verification service returns it, and one with a
\* very long address and the zero hash and time.
Submissions ==
    { [addr |-> "",           proofHash |-> PROOF_HASH_1, verifiedAt |-> 1640995200],
      [addr |-> BITCOIN_ADDR, proofHash |-> PROOF_HASH_1, verifiedAt |-> 1640995200],
      [addr |-> LongAddr,     proofHash |-> ZeroHash,     verifiedAt |-> 0] }

-----------------------------------------------------------------------------
(* Values of the contract.                                                 *)

\* Faulty variant: the verification time is not stored.
VerifiedAddress_NoTime(addr, proofHash, verifiedAt) ==
    [addr |-> addr, proofHash |-> proofHash, verifiedAt |-> 0]

\* struct VerifiedAddress, and the value `delete` / an unset slot leaves
VerifiedAddress(addr, proofHash, verifiedAt) ==
    [addr |-> addr, proofHash |-> proofHash, verifiedAt |-> verifiedAt]
DefaultVerifiedAddress == VerifiedAddress("", ZeroHash, 0)

\* Faulty variant: the event does not carry the proof hash.
VerifiedAddressSet_NoHash(node, chainId, addr, proofHash, verifiedAt) ==
    [event |-> "VerifiedAddressSet", node |-> node, chainId |-> chainId,
     addr |-> addr, proofHash |-> ZeroHash, verifiedAt |-> verifiedAt]

\* events
VerifiedAddressSet(node, chainId, addr, proofHash, verifiedAt) ==
    [event |-> "VerifiedAddressSet", node |-> node, chainId |-> chainId,
     addr |-> addr, proofHash |-> proofHash, verifiedAt |-> verifiedAt]
VerifiedAddressRemoved(node, chainId) ==
    [event |-> "VerifiedAddressRemoved", node |-> node, chainId |-> chainId]

\* errors
NoError == [kind |-> "none"]
NotNodeOwner(node, caller) ==
    [kind |-> "NotNodeOwner", node |-> node, caller |-> caller]
EmptyAddress == [kind |-> "EmptyAddress"]
EmptyChainId == [kind |-> "EmptyChainId"]
VerifiedAddressNotFound(node, chainId) ==
    [kind |-> "VerifiedAddressNotFound", node |-> node, chainId |-> chainId]
\* Solidity 0.8 checked arithmetic / array access
Panic(code) == [kind |-> "Panic", code |-> code]

NoReturn == <<>>

Receipt(op, sender, node, chainId, err, ret) ==
    [op |-> op, sender |-> sender, node |-> node, chainId |-> chainId,
     err |-> err, ret |-> ret]

-----------------------------------------------------------------------------
(* MockENSRegistry                                                         *)

ensOwner(node) == owners[node]

setOwner(node, owner) ==
    /\ owners' = [owners EXCEPT ![node] = owner]
    /\ UNCHANGED <<registry, lastCall, emitted>>

-----------------------------------------------------------------------------
(* CrossChainResolver                                                      *)

\* Faulty variant: the modifier compares with the owner at deployment.
onlyNodeOwner_AtDeployment(node, sender) == sender = NODE_OWNER

\* Faulty variant: the modifier lets every caller through.
onlyNodeOwner_Open(node, sender) == TRUE

\* modifier onlyNodeOwner: TRUE when the body may run
onlyNodeOwner(node, sender) == ensOwner(node) = sender

\* A reverted call: storage restored, no log entry, the error in the receipt.
Revert(op, sender, node, chainId, err) ==
    /\ lastCall' = Receipt(op, sender, node, chainId, err, NoReturn)
    /\ emitted' = <<>>
    /\ UNCHANGED <<owners, registry>>

\* Faulty variant: the emptiness check never fires.
isEmpty_Never(str) == FALSE

\* bytes(str).length == 0
isEmpty(str) == Len(str) = 0

\* Faulty variants: every write is taken for a first write; slot number 0 is
\* taken for "not listed".
isNewChain_Always(node, chainId) == TRUE
isNewChain_IndexSentinel(node, chainId) == chainIdIndex[node][chainId] = 0

\* bool isNewChain = !hasVerifiedAddress[node][chainId]
isNewChain(node, chainId) == ~hasVerifiedAddress[node][chainId]

\* nodeChainIds[node].push(chainId)
pushChainId(list, chainId) == Append(list, chainId)

\* nodeChainIds[node].length - 1, after the push
newChainIndex(list) == Len(list) - 1

\* the element at a 0-based slot of a string[]
At(list, index) == list[index + 1]

\* Faulty variant: the arguments are validated before the caller is checked.
setVerifiedAddress_ValidateFirst(sender, node, chainId, addr, proofHash, verifiedAt) ==
    LET op == "setVerifiedAddress" IN
    IF isEmpty(addr)
    THEN Revert(op, sender, node, chainId, EmptyAddress)
    ELSE IF isEmpty(chainId)
    THEN Revert(op, sender, node, chainId, EmptyChainId)
    ELSE IF ~onlyNodeOwner(node, sender)
    THEN Revert(op, sender, node, chainId, NotNodeOwner(node, sender))
    ELSE
      LET new    == isNewChain(node, chainId)
          pushed == pushChainId(nodeChainIds[node], chainId)
      IN
      /\ nodeChainIds' =
            IF new THEN [nodeChainIds EXCEPT ![node] = pushed]
            ELSE nodeChainIds
      /\ chainIdIndex' =
            IF new
            THEN [chainIdIndex EXCEPT ![node][chainId] = newChainIndex(pushed)]
            ELSE chainIdIndex
      /\ verifiedAddresses' =
            [verifiedAddresses EXCEPT ![node][chainId] =
                VerifiedAddress(addr, proofHash, verifiedAt)]
      /\ hasVerifiedAddress' = [hasVerifiedAddress EXCEPT ![node][chainId] = TRUE]
      /\ emitted' = <<VerifiedAddressSet(node, chainId, addr, proofHash, verifiedAt)>>
      /\ lastCall' = Receipt(op, sender, node, chainId, NoError, NoReturn)
      /\ UNCHANGED owners

setVerifiedAddress(sender, node, chainId, addr, proofHash, verifiedAt) ==
    LET op == "setVerifiedAddress" IN
    IF ~onlyNodeOwner(node, sender)
    THEN Revert(op, sender, node, chainId, NotNodeOwner(node, sender))
    ELSE IF isEmpty(addr)
    THEN Revert(op, sender, node, chainId, EmptyAddress)
    ELSE IF isEmpty(chainId)
    THEN Revert(op, sender, node, chainId, EmptyChainId)
    ELSE
      LET new    == isNewChain(node, chainId)
          pushed == pushChainId(nodeChainIds[node], chainId)
      IN
      /\ nodeChainIds' =
            IF new THEN [nodeChainIds EXCEPT ![node] = pushed]
            ELSE nodeChainIds
      /\ chainIdIndex' =
            IF new
            THEN [chainIdIndex EXCEPT ![node][chainId] = newChainIndex(pushed)]
            ELSE chainIdIndex
      /\ verifiedAddresses' =
            [verifiedAddresses EXCEPT ![node][chainId] =
                VerifiedAddress(addr, proofHash, verifiedAt)]
      /\ hasVerifiedAddress' = [hasVerifiedAddress EXCEPT ![node][chainId] = TRUE]
      /\ emitted' = <<VerifiedAddressSet(node, chainId, addr, proofHash, verifiedAt)>>
      /\ lastCall' = Receipt(op, sender, node, chainId, NoError, NoReturn)
      /\ UNCHANGED owners

\* Faulty variant: the view reads the slot without looking at the flag.
getVerifiedAddressResult_NoCheck(node, chainId) ==
    LET verified == verifiedAddresses[node][chainId] IN
    [err |-> NoError,
     ret |-> <<verified.addr, verified.proofHash, verified.verifiedAt>>]

\* what the view getVerifiedAddress answers in the current state
getVerifiedAddressResult(node, chainId) ==
    IF ~hasVerifiedAddress[node][chainId]
    THEN [err |-> VerifiedAddressNotFound(node, chainId), ret |-> NoReturn]
    ELSE LET verified == verifiedAddresses[node][chainId] IN
         [err |-> NoError,
          ret |-> <<verified.addr, verified.proofHash, verified.verifiedAt>>]

\* Faulty variant: the view is put behind the ownership modifier.
getVerifiedAddress_OwnerOnly(sender, node, chainId) ==
    LET r == IF onlyNodeOwner(node, sender)
             THEN getVerifiedAddressResult(node, chainId)
             ELSE [err |-> NotNodeOwner(node, sender), ret |-> NoReturn]
    IN
    /\ lastCall' = Receipt("getVerifiedAddress", sender, node, chainId, r.err, r.ret)
    /\ emitted' = <<>>
    /\ UNCHANGED <<owners, registry>>

getVerifiedAddress(sender, node, chainId) ==
    LET r == getVerifiedAddressResult(node, chainId) IN
    /\ lastCall' = Receipt("getVerifiedAddress", sender, node, chainId, r.err, r.ret)
    /\ emitted' = <<>>
    /\ UNCHANGED <<owners, registry>>

\* Faulty variant: the last chain id is not moved into the freed slot.
moveLast_Skip(list, index) == list

\* Faulty variant: the chain ids behind the freed slot are shifted down by one.
moveLast_Shift(list, index) ==
    [i \in 1..Len(list) |->
        IF i < index + 1 THEN list[i]
        ELSE IF i < Len(list) THEN list[i + 1] ELSE list[i]]

\* nodeChainIds[node][index] = nodeChainIds[node][lastIndex]
moveLast(list, index) == [list EXCEPT ![index + 1] = At(list, Len(list) - 1)]

\* Faulty variant: the moved chain id keeps its old slot number.
reindexMoved_Stale(indexOf, lastChainId, index) == indexOf

\* chainIdIndex[node][lastChainId] = index
reindexMoved(indexOf, lastChainId, index) == [indexOf EXCEPT ![lastChainId] = index]

\* Faulty variant: the list is not shortened.
popLast_Keep(list) == list

\* nodeChainIds[node].pop()
popLast(list) == SubSeq(list, 1, Len(list) - 1)

\* Faulty variant: the removal clears the stored bindings of the whole node.
removeVerifiedAddress_WipeNode(sender, node, chainId) ==
    LET op == "removeVerifiedAddress" IN
    IF ~onlyNodeOwner(node, sender)
    THEN Revert(op, sender, node, chainId, NotNodeOwner(node, sender))
    ELSE IF ~hasVerifiedAddress[node][chainId]
    THEN Revert(op, sender, node, chainId, VerifiedAddressNotFound(node, chainId))
    ELSE
      LET list      == nodeChainIds[node]
          index     == chainIdIndex[node][chainId]
          lastIndex == Len(list) - 1
      IN
      IF Len(list) = 0
      THEN Revert(op, sender, node, chainId, Panic("0x11"))  \* length - 1 underflows
      ELSE IF index # lastIndex /\ index >= Len(list)
      THEN Revert(op, sender, node, chainId, Panic("0x32"))  \* slot out of bounds
      ELSE
        LET lastChainId == At(list, lastIndex)
            swapped     == IF index # lastIndex THEN moveLast(list, index) ELSE list
            reindexed   == IF index # lastIndex
                           THEN reindexMoved(chainIdIndex[node], lastChainId, index)
                           ELSE chainIdIndex[node]
        IN
        /\ verifiedAddresses' =
              [verifiedAddresses EXCEPT ![node] =
                  [c \in DOMAIN verifiedAddresses[node] |-> DefaultVerifiedAddress]]
        /\ hasVerifiedAddress' = [hasVerifiedAddress EXCEPT ![node][chainId] = FALSE]
        /\ nodeChainIds' = [nodeChainIds EXCEPT ![node] = popLast(swapped)]
        /\ chainIdIndex' =
              [chainIdIndex EXCEPT ![node] = [reindexed EXCEPT ![chainId] = 0]]
        /\ emitted' = <<VerifiedAddressRemoved(node, chainId)>>
        /\ lastCall' = Receipt(op, sender, node, chainId, NoError, NoReturn)
        /\ UNCHANGED owners

\* Faulty variant: the side index entry of the removed chain id is left behind.
removeVerifiedAddress_KeepIndex(sender, node, chainId) ==
    LET op == "removeVerifiedAddress" IN
    IF ~onlyNodeOwner(node, sender)
    THEN Revert(op, sender, node, chainId, NotNodeOwner(node, sender))
    ELSE IF ~hasVerifiedAddress[node][chainId]
    THEN Revert(op, sender, node, chainId, VerifiedAddressNotFound(node, chainId))
    ELSE
      LET list      == nodeChainIds[node]
          index     == chainIdIndex[node][chainId]
          lastIndex == Len(list) - 1
      IN
      IF Len(list) = 0
      THEN Revert(op, sender, node, chainId, Panic("0x11"))  \* length - 1 underflows
      ELSE IF index # lastIndex /\ index >= Len(list)
      THEN Revert(op, sender, node, chainId, Panic("0x32"))  \* slot out of bounds
      ELSE
        LET lastChainId == At(list, lastIndex)
            swapped     == IF index # lastIndex THEN moveLast(list, index) ELSE list
            reindexed   == IF index # lastIndex
                           THEN reindexMoved(chainIdIndex[node], lastChainId, index)
                           ELSE chainIdIndex[node]
        IN
        /\ verifiedAddresses' =
              [verifiedAddresses EXCEPT ![node][chainId] = DefaultVerifiedAddress]
        /\ hasVerifiedAddress' = [hasVerifiedAddress EXCEPT ![node][chainId] = FALSE]
        /\ nodeChainIds' = [nodeChainIds EXCEPT ![node] = popLast(swapped)]
        /\ chainIdIndex' =
              [chainIdIndex EXCEPT ![node] = reindexed]
        /\ emitted' = <<VerifiedAddressRemoved(node, chainId)>>
        /\ lastCall' = Receipt(op, sender, node, chainId, NoError, NoReturn)
        /\ UNCHANGED owners

removeVerifiedAddress(sender, node, chainId) ==
    LET op == "removeVerifiedAddress" IN
    IF ~onlyNodeOwner(node, sender)
    THEN Revert(op, sender, node, chainId, NotNodeOwner(node, sender))
    ELSE IF ~hasVerifiedAddress[node][chainId]
    THEN Revert(op, sender, node, chainId, VerifiedAddressNotFound(node, chainId))
    ELSE
      LET list      == nodeChainIds[node]
          index     == chainIdIndex[node][chainId]
          lastIndex == Len(list) - 1
      IN
      IF Len(list) = 0
      THEN Revert(op, sender, node, chainId, Panic("0x11"))  \* length - 1 underflows
      ELSE IF index # lastIndex /\ index >= Len(list)
      THEN Revert(op, sender, node, chainId, Panic("0x32"))  \* slot out of bounds
      ELSE
        LET lastChainId == At(list, lastIndex)
            swapped     == IF index # lastIndex THEN moveLast(list, index) ELSE list
            reindexed   == IF index # lastIndex
                           THEN reindexMoved(chainIdIndex[node], lastChainId, index)
                           ELSE chainIdIndex[node]
        IN
        /\ verifiedAddresses' =
              [verifiedAddresses EXCEPT ![node][chainId] = DefaultVerifiedAddress]
        /\ hasVerifiedAddress' = [hasVerifiedAddress EXCEPT ![node][chainId] = FALSE]
        /\ nodeChainIds' = [nodeChainIds EXCEPT ![node] = popLast(swapped)]
        /\ chainIdIndex' =
              [chainIdIndex EXCEPT ![node] = [reindexed EXCEPT ![chainId] = 0]]
        /\ emitted' = <<VerifiedAddressRemoved(node, chainId)>>
        /\ lastCall' = Receipt(op, sender, node, chainId, NoError, NoReturn)
        /\ UNCHANGED owners

getNodeChainIds(node) == nodeChainIds[node]
getVerifiedAddressCount(node) == Len(nodeChainIds[node])
hasVerifiedAddressForChain(node, chainId) == hasVerifiedAddress[node][chainId]
getNodeOwner(node) == ensOwner(node)

\* An external call of one of the three views above: they carry no modifier
\* and cannot revert, the returned value goes into the receipt, and a view
\* writes neither storage nor log.
staticCall(op, sender, node, chainId, ret) ==
    /\ lastCall' = Receipt(op, sender, node, chainId, NoError, <<ret>>)
    /\ emitted' = <<>>
    /\ UNCHANGED <<owners, registry>>

-----------------------------------------------------------------------------
(* The verification service (backend): JSON values and JavaScript strings. *)

\* A field of a JSON request body: absent (undefined after destructuring), a
\* string, or a number (given by its text).
Undefined == [type |-> "undefined"]
Str(s)    == [type |-> "string", value |-> s]
Num(text) == [type |-> "number", value |-> text]

isString(v) == v.type = "string"

\* JavaScript truthiness: !v is true for undefined, "" and 0
truthy(v) ==
    /\ v.type # "undefined"
    /\ ~(v.type = "string" /\ v.value = "")
    /\ ~(v.type = "number" /\ v.value = "0")

CharAt(s, i) == SubSeq(s, i, i)

UpperCase == "ABCDEFGHIJKLMNOPQRSTUVWXYZ"
LowerCase == "abcdefghijklmnopqrstuvwxyz"

\* String.prototype.toLowerCase on ASCII text
toLowerCase(s) ==
    LET lower(ch) ==
          IF \E i \in 1..Len(UpperCase) : CharAt(UpperCase, i) = ch
          THEN CharAt(LowerCase, CHOOSE i \in 1..Len(UpperCase) : CharAt(UpperCase, i) = ch)
          ELSE ch
        conv[i \in 0..Len(s)] ==
          IF i = 0 THEN "" ELSE conv[i - 1] \o lower(CharAt(s, i))
    IN conv[Len(s)]

\* String.prototype.endsWith
endsWith(s, suffix) ==
    /\ Len(s) >= Len(suffix)
    /\ SubSeq(s, Len(s) - Len(suffix) + 1, Len(s)) = suffix

\* every character of s, from position `from` on, lies in `class`
AllIn(s, from, class) == \A i \in from..Len(s) : CharAt(s, i) \in class

Digits       == {"0", "1", "2", "3", "4", "5", "6", "7", "8", "9"}
LowerLetters == 
    {"a", "b", "c", "d", "e", "f", "g", "h", "i", "j", "k", "l", "m", "n",
     "o", "p", "q", "r", "s", "t", "u", "v", "w", "x", "y", "z"}
\* [1-9A-HJ-NP-Za-km-z], which is also [a-km-zA-HJ-NP-Z1-9]
Base58Chars  ==
    {"1", "2", "3", "4", "5", "6", "7", "8", "9", "A", "B", "C", "D", "E",
     "F", "G", "H", "J", "K", "L", "M", "N", "P", "Q", "R", "S", "T", "U",
     "V", "W", "X", "Y", "Z", "a", "b", "c", "d", "e", "f", "g", "h", "i",
     "j", "k", "m", "n", "o", "p", "q", "r", "s", "t", "u", "v", "w", "x",
     "y", "z"}

-----------------------------------------------------------------------------
(* Inputs of the verification service.                                     *)

\* Two wallets and what they have signed.  WalletBitcoin is the P2PKH
\* address of a secp256k1 key and SignatureBitcoin that key's Bitcoin
\* message signature (base64, 65 bytes) over Message; WalletSolana is an
\* Ed25519 public key (base58, 32 bytes) and SignatureSolana that key's
\* signature (base58, 64 bytes) over Message.  Nobody has signed
\* OtherMessage, and nobody has signed for BITCOIN_ADDR.
WalletBitcoin    == "14mjfS9m24gxo1tSZZDCK6dUwa3QwjEb6C"
WalletSolana     == "BB5kFEgG6GPBTCbPEyPaSyb3ESjQp6paMbVr8QBYouDr"
EthAddress       == "0xd8dA6BF26964aF9D7eEd9e03E53415D37aA96045"
Message          == "bind-address-to-ens alice.eth"
OtherMessage     == "bind-address-to-ens bob.eth"
SignatureBitcoin == "H1u8uWHUVrI3jBaHN1HPYTrQXHINpdgbn8H/YdY5dMZlFcqWureKFJGFhsJ0eAjpghOMw81tP2WRoGMUEGAtMHA="
SignatureSolana  == "4j3C474qSShy6GrBNCjN9aCqg786wLRiXkY8GqYKAujvQU9Xetnrh5DLUCQAebYK2dXtCQgz3GqeuGVb7RiYw6ru"
MockSignature    == "mock-signature-for-testing"

Signed ==
    { [address |-> WalletBitcoin, message |-> Message, signature |-> SignatureBitcoin],
      [address |-> WalletSolana,  message |-> Message, signature |-> SignatureSolana] }

\* what uuidv4() may return, and a nonce it never returns
Uuid1       == "110ec58a-a0f2-4ac4-8393-c866d813b8d1"
Uuid2       == "7d444840-9dc0-41d1-b245-5ffdce74fad2"
Uuids       == {Uuid1, Uuid2}
ForgedNonce == "00000000-0000-0000-0000-000000000000"

\* what new Date().toISOString() may return
Time1 == "2024-01-01T00:00:00.000Z"
Time2 == "2024-01-01T00:00:00.001Z"
Times == {Time1, Time2}

\* the bodies of POST /challenge
ChallengeBodies ==
    [ensName : {Undefined, Str(""), Str("Alice.eth"), Str("alice.ETH"),
                Str("alice.btc"), Num("1")},
     chain   : {Undefined, Str(BITCOIN_CHAIN), Str("Solana"), Str("ethereum"),
                Num("1")},
     address : {Undefined, Str(WalletBitcoin)}]

\* the bodies of POST /verify: those with every field a string and a
\* supported chain, a complete body with any of its fields left out or empty,
\* and bodies whose chain is not one of the supported names
VerifyFields == {"chain", "address", "signature", "nonce", "message"}
CompleteBodies ==
    [chain     : {Str(BITCOIN_CHAIN), Str("Solana")},
     address   : {Str(WalletBitcoin), Str(WalletSolana), Str(EthAddress)},
     signature : {Str(SignatureBitcoin), Str(SignatureSolana), Str(MockSignature)},
     nonce     : {Str(Uuid1), Str(ForgedNonce)},
     message   : {Str(Message), Str(OtherMessage)}]
SignedBody ==
    [chain |-> Str(BITCOIN_CHAIN), address |-> Str(WalletBitcoin),
     signature |-> Str(SignatureBitcoin), nonce |-> Str(Uuid1),
     message |-> Str(Message)]
IncompleteBodies ==
    { [f \in VerifyFields |-> IF f \in left THEN blank ELSE from[f]] :
        left \in (SUBSET VerifyFields) \ {{}},
        blank \in {Undefined, Str("")},
        from \in {SignedBody, [SignedBody EXCEPT !.chain = Num("1")]} }
OtherChainBodies ==
    { [from EXCEPT !.chain = c] :
        c \in {Str("ethereum"), Num("1")},
        from \in {SignedBody, [SignedBody EXCEPT !.signature = Str(MockSignature)]} }
\* a complete body carrying fields the route does not read
ExtraFieldBodies ==
    { [f \in VerifyFields \cup extra |->
          IF f \in VerifyFields THEN SignedBody[f]
          ELSE IF f = "verifiedAt" THEN Str("1999-12-31T23:59:59.000Z")
          ELSE Str(ZeroHash)] :
        extra \in {{"verifiedAt", "proofHash"}} }
VerifyBodies ==
    CompleteBodies \cup IncompleteBodies \cup OtherChainBodies \cup ExtraFieldBodies

-----------------------------------------------------------------------------
(* The HTTP service: routes/challenge.js                                   *)

\* A response as the client receives it, with the request it answers and the
\* calls the handler made to its collaborators while serving it.
Response(route, req, status, body, calls) ==
    [route |-> route, req |-> req, status |-> status, body |-> body,
     calls |-> calls]
NoResponse == Response("", Undefined, 0, Undefined, <<>>)

\* res.status(status).json({ error, message })
ErrorBody(error, message) == [error |-> error, message |-> message]

\* what calling a method a value does not have throws
TypeError(expr) == expr \o " is not a function"

supportedChains == <<"bitcoin", "solana">>

\* supportedChains.includes(chain.toLowerCase())
includes_chain(chain) ==
    \E i \in 1..Len(supportedChains) : supportedChains[i] = toLowerCase(chain)

\* `Supported chains: ${supportedChains.join(', ')}`
SupportedChainsMessage == "Supported chains: " \o supportedChains[1] \o ", " \o supportedChains[2]

\* router.post('/') of the challenge route up to the building of the
\* challenge: the failure it answers, or none
challengeValidate(body) ==
    LET ensName == body.ensName
        chain   == body.chain
        address == body.address
        failed(error, message) ==
            [failed |-> TRUE, status |-> 400, body |-> ErrorBody(error, message)]
        caught(message) ==
            [failed |-> TRUE, status |-> 500,
             body |-> ErrorBody("Failed to generate challenge", message)]
    IN
    IF ~truthy(ensName) \/ ~truthy(chain) \/ ~truthy(address)
    THEN failed("Missing required fields", "ensName, chain, and address are required")
    ELSE IF ~isString(chain)
    THEN caught(TypeError("chain.toLowerCase"))
    ELSE IF ~includes_chain(chain.value)
    THEN failed("Unsupported chain", SupportedChainsMessage)
    ELSE IF ~isString(ensName)
    THEN caught(TypeError("ensName.endsWith"))
    ELSE IF ~endsWith(ensName.value, ".eth")
    THEN failed("Invalid ENS name", "ENS name must end with .eth")
    ELSE [failed |-> FALSE]

\* Faulty variant: the name and the chain are echoed as they were sent.
challenge_Raw(body, uuid, time) ==
    [ensName   |-> body.ensName.value,
     chain     |-> body.chain.value,
     address   |-> body.address.value,
     nonce     |-> uuid,
     timestamp |-> time,
     purpose   |-> "bind-address-to-ens"]

\* the challenge of a request that passed the validations, uuid being what
\* uuidv4() returns and time what new Date().toISOString() prints
challenge(body, uuid, time) ==
    [ensName   |-> toLowerCase(body.ensName.value),
     chain     |-> toLowerCase(body.chain.value),
     address   |-> body.address.value,
     nonce     |-> uuid,
     timestamp |-> time,
     purpose   |-> "bind-address-to-ens"]

\* router.post('/') of the challenge route, uuidv4() drawing from uuids and
\* the clock reading one of times
postChallenge(body, uuids, times) ==
    LET v == challengeValidate(body) IN
    /\ IF v.failed
       THEN response' = Response("/challenge", body, v.status, v.body, <<>>)
       ELSE \E uuid \in uuids, time \in times :
              response' = Response("/challenge", body, 200,
                                   challenge(body, uuid, time), <<>>)
    /\ UNCHANGED <<ipfsService, inflight>>

-----------------------------------------------------------------------------
(* utils/bitcoinVerify.js, utils/solanaVerify.js and the libraries they    *)
(* call.                                                                   *)

\* How a call ends: with a value, or with a thrown error.
Returned(value) == [throws |-> FALSE, value |-> value]
Thrown(message) == [throws |-> TRUE, message |-> message]

\* Faulty variant: the error is not caught.
catchReturn_Rethrow(outcome, value) == outcome

\* try { ... } catch (error) { return value }
catchReturn(outcome, value) ==
    IF outcome.throws THEN Returned(value) ELSE outcome

\* legacyRegex, bech32Regex and taprootRegex of isValidBitcoinAddress
isValidBitcoinAddress(address) ==
    LET n == Len(address)
        legacy  == /\ n >= 1
                   /\ CharAt(address, 1) \in {"1", "3"}
                   /\ n - 1 >= 25 /\ n - 1 <= 34
                   /\ AllIn(address, 2, Base58Chars)
        bech32  == /\ n >= 3
                   /\ SubSeq(address, 1, 3) = "bc1"
                   /\ n - 3 >= 39 /\ n - 3 <= 59
                   /\ AllIn(address, 4, LowerLetters \cup Digits)
        taproot == /\ n >= 4
                   /\ SubSeq(address, 1, 4) = "bc1p"
                   /\ n - 4 = 58
                   /\ AllIn(address, 5, LowerLetters \cup Digits)
    IN legacy \/ bech32 \/ taproot

\* Buffer.from(signature, 'base64').length
base64Length(s) ==
    LET n   == Len(s)
        pad == IF n >= 2 /\ SubSeq(s, n - 1, n) = "==" THEN 2
               ELSE IF n >= 1 /\ CharAt(s, n) = "=" THEN 1 ELSE 0
    IN (n * 3) \div 4 - pad

\* the addresses of the inputs whose base58check checksum is right
Base58CheckAddresses ==
    {WalletBitcoin, BITCOIN_ADDR, "3J98t1WpEZ73CNmQviecrnyiWrnqRhWNLy"}

\* bitcoinMessage.verify(message, address, signature) of bitcoinjs-message:
\* it throws on a signature that is not 65 bytes of base64 and on an address
\* that does not decode (a character outside base 58, a wrong checksum), and
\* else tells whether the key behind the address made the signature over the
\* message.
bitcoinMessage_verify(message, address, signature) ==
    IF base64Length(signature) # 65
    THEN Thrown("Invalid signature length")
    ELSE IF ~AllIn(address, 1, Base58Chars)
    THEN Thrown("Non-base58 character")
    ELSE IF address \notin Base58CheckAddresses
    THEN Thrown("Invalid checksum")
    ELSE Returned([address |-> address, message |-> message,
                   signature |-> signature] \in Signed)

\* verifySignature of utils/bitcoinVerify.js: how the call ends, and the
\* cryptographic library calls it made.
bitcoinVerify_verifySignature(address, message, signature) ==
    IF ~isValidBitcoinAddress(address)
    THEN [result |-> Returned(FALSE), crypto |-> <<>>]
    ELSE [result |-> catchReturn(bitcoinMessage_verify(message, address, signature),
                                 FALSE),
          crypto |-> <<"bitcoinMessage.verify">>]

\* base58Regex of isValidSolanaAddress
isValidSolanaAddress(address) ==
    /\ Len(address) >= 32 /\ Len(address) <= 44
    /\ AllIn(address, 1, Base58Chars)

\* the number of bytes the base58 strings of the inputs decode to
decodedLength(base58) ==
    CASE base58 = WalletSolana    -> 32
      [] base58 = SignatureSolana -> 64
      [] base58 = WalletBitcoin   -> 25
      [] base58 = BITCOIN_ADDR    -> 25
      [] OTHER                    -> 0

\* base58ToUint8Array: throws on a character outside the alphabet
base58ToUint8Array(base58) ==
    IF ~AllIn(base58, 1, Base58Chars)
    THEN LET i == CHOOSE j \in 1..Len(base58) :
                    /\ CharAt(base58, j) \notin Base58Chars
                    /\ \A k \in (j + 1)..Len(base58) : CharAt(base58, k) \in Base58Chars
         IN Thrown("Invalid base58 character: " \o CharAt(base58, i))
    ELSE Returned([base58 |-> base58, length |-> decodedLength(base58)])

\* nacl.sign.detached.verify(messageBytes, signatureBytes, publicKeyBytes) of
\* tweetnacl: it throws on a signature that is not 64 bytes and on a key that
\* is not 32 bytes, and else tells whether the key made the signature.
nacl_sign_detached_verify(message, signatureBytes, publicKeyBytes) ==
    IF signatureBytes.length # 64
    THEN Thrown("bad signature size")
    ELSE IF publicKeyBytes.length # 32
    THEN Thrown("bad public key size")
    ELSE Returned([address |-> publicKeyBytes.base58, message |-> message,
                   signature |-> signatureBytes.base58] \in Signed)

\* verifySignature of utils/solanaVerify.js
solanaVerify_verifySignature(address, message, signature) ==
    IF ~isValidSolanaAddress(address)
    THEN [result |-> Returned(FALSE), crypto |-> <<>>]
    ELSE
      LET publicKeyBytes == base58ToUint8Array(address)
          signatureBytes == base58ToUint8Array(signature)
      IN
      IF publicKeyBytes.throws
      THEN [result |-> catchReturn(publicKeyBytes, FALSE), crypto |-> <<>>]
      ELSE IF signatureBytes.throws
      THEN [result |-> catchReturn(signatureBytes, FALSE), crypto |-> <<>>]
      ELSE [result |-> catchReturn(
                         nacl_sign_detached_verify(message, signatureBytes.value,
                                                   publicKeyBytes.value),
                         FALSE),
            crypto |-> <<"nacl.sign.detached.verify">>]

-----------------------------------------------------------------------------
(* utils/hash.js                                                           *)

\* An object is the list of its <<key, value>> properties in insertion order.
ObjectKeys(object) == [i \in 1..Len(object) |-> object[i][1]]
HasProperty(object, key) == \E i \in 1..Len(object) : object[i][1] = key
Property(object, key) ==
    object[CHOOSE i \in 1..Len(object) : object[i][1] = key][2]

\* the printable ASCII characters in code order: 32 to 95, and 97 to 126
AsciiLow  == " !\"#$%&'()*+,-./0123456789:;<=>?@ABCDEFGHIJKLMNOPQRSTUVWXYZ[\\]^_"
AsciiHigh == "abcdefghijklmnopqrstuvwxyz{|}~"
charCodeAt(s, i) ==
    LET ch == CharAt(s, i) IN
    IF \E k \in 1..Len(AsciiLow) : CharAt(AsciiLow, k) = ch
    THEN 31 + CHOOSE k \in 1..Len(AsciiLow) : CharAt(AsciiLow, k) = ch
    ELSE 96 + CHOOSE k \in 1..Len(AsciiHigh) : CharAt(AsciiHigh, k) = ch

\* a < b as Array.prototype.sort compares strings (by code units)
StringLess(a, b) ==
    LET n == IF Len(a) < Len(b) THEN Len(a) ELSE Len(b)
        differ == {k \in 1..n : CharAt(a, k) # CharAt(b, k)}
    IN IF differ = {} THEN Len(a) < Len(b)
       ELSE LET k == CHOOSE d \in differ : \A e \in differ : d <= e
            IN charCodeAt(a, k) < charCodeAt(b, k)

\* Faulty variant: the keys stay in the order they were inserted in.
sort_Unsorted(keys) == keys

\* Array.prototype.sort on an array of distinct strings
sort(keys) ==
    LET insert(sorted, key) ==
          LET k == Cardinality({j \in 1..Len(sorted) : StringLess(sorted[j], key)})
          IN SubSeq(sorted, 1, k) \o <<key>> \o SubSeq(sorted, k + 1, Len(sorted))
        upTo[i \in 0..Len(keys)] ==
          IF i = 0 THEN <<>> ELSE insert(upTo[i - 1], keys[i])
    IN upTo[Len(keys)]

\* JSON.stringify of a string without characters to escape, and of a value:
\* of undefined it is undefined, not a text
quote(s) == "\"" \o s \o "\""
stringifyValue(v) ==
    CASE v.type = "string" -> quote(v.value)
      [] v.type = "number" -> v.value
      [] v.type = "null"   -> "null"
      [] OTHER             -> Undefined

\* JSON.stringify(object, replacer) with an array replacer: the listed
\* properties the object has, in the order of the list, a property whose
\* value is undefined being left out
JSONstringify(object, replacer) ==
    LET listed == SelectSeq(replacer,
                            LAMBDA key : /\ HasProperty(object, key)
                                         /\ Property(object, key).type # "undefined")
        member(key) == quote(key) \o ":" \o stringifyValue(Property(object, key))
        join[i \in 0..Len(listed)] ==
          IF i = 0 THEN ""
          ELSE join[i - 1] \o (IF i = 1 THEN "" ELSE ",") \o member(listed[i])
    IN "{" \o join[Len(listed)] \o "}"

\* keccak('keccak256').update(input).digest('hex'): the digest stands for
\* itself, distinct inputs having distinct digests
keccak256(input) == "keccak256(" \o input \o ")"

\* computeProofHash
computeProofHash(proof) ==
    "0x" \o keccak256(JSONstringify(proof, sort(ObjectKeys(proof))))

-----------------------------------------------------------------------------
(* services/ipfs.js                                                        *)

Null == [type |-> "null"]

\* the two configurations initialize() leaves the service in
IpfsEndpoint == "http://localhost:5001"
RealIPFS     == [useRealIPFS |-> TRUE, ipfsClient |-> Str(IpfsEndpoint)]
LocalStorage == [useRealIPFS |-> FALSE, ipfsClient |-> Null]

localStoragePath == "./storage"

\* what the store itself (the IPFS node, the file system) does with a write
Cid        == "QmYwAPJzv5CZsnA625s3Xf2nemtYgPpHdWEz79ojWnPbdG"
StoreError == "connect ECONNREFUSED 127.0.0.1:5001"
StoreOutcomes == {Returned(Cid), Thrown(StoreError)}

\* Buffer.from(s).toString('hex')
HexDigits == "0123456789abcdef"
hex(s) ==
    LET byte(i) == CharAt(HexDigits, (charCodeAt(s, i) \div 16) + 1)
                     \o CharAt(HexDigits, (charCodeAt(s, i) % 16) + 1)
        conv[i \in 0..Len(s)] == IF i = 0 THEN "" ELSE conv[i - 1] \o byte(i)
    IN conv[Len(s)]

\* new Date().toISOString().replace(/[:.]/g, '-')
fileTimestamp(time) ==
    LET conv[i \in 0..Len(time)] ==
          IF i = 0 THEN ""
          ELSE conv[i - 1] \o (IF CharAt(time, i) \in {":", "."} THEN "-"
                               ELSE CharAt(time, i))
    IN conv[Len(time)]

\* path.join(dir, filename) for a directory written as ./name
path_join(dir, filename) ==
    (IF Len(dir) >= 2 /\ SubSeq(dir, 1, 2) = "./" THEN SubSeq(dir, 3, Len(dir)) ELSE dir)
      \o "/" \o filename

\* uploadToIPFS: the content id the node answers, or its error
uploadToIPFS(store) == store

\* uploadToLocal: the mock hash of the file path, or the error of the write
uploadToLocal(time, store) ==
    LET filename == "proof-" \o fileTimestamp(time) \o ".json"
        filepath == path_join(localStoragePath, filename)
    IN IF store.throws THEN store
       ELSE Returned("QmMock" \o SubSeq(hex(filepath), 1, 40))

\* uploadProof: how the promise settles
uploadProof(service, time, store) ==
    LET r == IF service.useRealIPFS /\ service.ipfsClient # Null
             THEN uploadToIPFS(store)
             ELSE uploadToLocal(time, store)
    IN IF r.throws THEN Thrown("Failed to upload proof: " \o r.message) ELSE r

-----------------------------------------------------------------------------
(* routes/verify.js: POST /verify                                          *)

\* a collaborator call of a handler and how it ended
Call(fn, result) == [fn |-> fn, result |-> result]

\* the upload of a handler that is waiting for the store
Pending == [pending |-> TRUE]

\* what the handler has done when it yields or returns: it has answered, or
\* it goes on after the await
Answered(status, body, calls) ==
    [done |-> TRUE, status |-> status, body |-> body, calls |-> calls]
Verified(calls) == [done |-> FALSE, calls |-> calls]

\* if (!chain || !address || !signature || !nonce || !message)
missingFields(body) ==
    \/ ~truthy(body.chain)
    \/ ~truthy(body.address)
    \/ ~truthy(body.signature)
    \/ ~truthy(body.nonce)
    \/ ~truthy(body.message)

\* Faulty variant: every request goes to the Bitcoin verifier.
dispatch_Bitcoin(chain, address, message, signature) ==
    [fn |-> "bitcoinVerify.verifySignature",
     v  |-> bitcoinVerify_verifySignature(address, message, signature)]

\* the verifier the route dispatches to
dispatch(chain, address, message, signature) ==
    IF toLowerCase(chain) = "bitcoin"
    THEN [fn |-> "bitcoinVerify.verifySignature",
          v  |-> bitcoinVerify_verifySignature(address, message, signature)]
    ELSE [fn |-> "solanaVerify.verifySignature",
          v  |-> solanaVerify_verifySignature(address, message, signature)]

\* the handler from its call to its first await: it answers a request that
\* fails the validations, and else calls the verifier, which runs to its end
\* and returns a settled promise, and yields at `await verifySignature(..)`
verifyBegin(body) ==
    IF missingFields(body)
    THEN Answered(400, ErrorBody("Missing required fields",
                    "chain, address, signature, nonce, and message are required"),
                  <<>>)
    ELSE IF ~isString(body.chain)
    THEN Answered(500, ErrorBody("Verification failed",
                                 TypeError("chain.toLowerCase")), <<>>)
    ELSE IF ~includes_chain(body.chain.value)
    THEN Answered(400, ErrorBody("Unsupported chain", SupportedChainsMessage), <<>>)
    ELSE
      LET d    == dispatch(body.chain.value, body.address.value,
                           body.message.value, body.signature.value)
          call == [fn |-> d.fn, result |-> d.v.result, crypto |-> d.v.crypto]
      IN Verified(<<call>>)

\* the handler from its resumption with the verifier's result, calls[1], to
\* the building of the proof
verifyChecked(calls) ==
    LET isValid == calls[1].result IN
    IF isValid.throws
    THEN Answered(500, ErrorBody("Verification failed", isValid.message), calls)
    ELSE IF ~isValid.value
    THEN Answered(400, ErrorBody("Invalid signature", "Signature verification failed"),
                  calls)
    ELSE Verified(calls)

\* Faulty variant: a verifiedAt sent with the request is taken over.
Proof_ClientTime(body, time) ==
    << <<"chain", Str(toLowerCase(body.chain.value))>>,
       <<"address", body.address>>,
       <<"signature", body.signature>>,
       <<"nonce", body.nonce>>,
       <<"verifiedAt", IF "verifiedAt" \in DOMAIN body
                       THEN body.verifiedAt ELSE Str(time)>> >>

\* const proof = { chain, address, signature, nonce, verifiedAt }, time being
\* what new Date().toISOString() prints
Proof(body, time) ==
    << <<"chain", Str(toLowerCase(body.chain.value))>>,
       <<"address", body.address>>,
       <<"signature", body.signature>>,
       <<"nonce", body.nonce>>,
       <<"verifiedAt", Str(time)>> >>

\* Faulty variant: a failed upload fails the request.
verifyEnd_Abort(h) ==
    IF h.upload.throws
    THEN Response("/verify", h.req, 500,
                  ErrorBody("Verification failed", h.upload.message),
                  h.calls \o <<Call("ipfsService.uploadProof", h.upload)>>)
    ELSE LET proofHash == computeProofHash(h.proof) IN
         Response("/verify", h.req, 200,
                  [success   |-> TRUE,
                   proofHash |-> proofHash,
                   ipfsHash  |-> Str(h.upload.value),
                   metadata  |-> [chain      |-> Property(h.proof, "chain").value,
                                  address    |-> Property(h.proof, "address").value,
                                  verifiedAt |-> Property(h.proof, "verifiedAt").value]],
                  h.calls \o <<Call("ipfsService.uploadProof", h.upload),
                               Call("computeProofHash", Returned(proofHash))>>)

\* the handler from the settling of the upload to its answer
verifyEnd(h) ==
    LET ipfsHash  == IF h.upload.throws THEN Null ELSE Str(h.upload.value)
        proofHash == computeProofHash(h.proof)
    IN Response("/verify", h.req, 200,
                [success   |-> TRUE,
                 proofHash |-> proofHash,
                 ipfsHash  |-> ipfsHash,
                 metadata  |-> [chain      |-> Property(h.proof, "chain").value,
                                address    |-> Property(h.proof, "address").value,
                                verifiedAt |-> Property(h.proof, "verifiedAt").value]],
                h.calls \o <<Call("ipfsService.uploadProof", h.upload),
                             Call("computeProofHash", Returned(proofHash))>>)

\* what a successful verification is logged for, and the nonce it carried
Verification(r) ==
    [chain     |-> r.body.metadata.chain,
     address   |-> r.body.metadata.address,
     proofHash |-> r.body.proofHash,
     nonce     |-> r.req.nonce.value]

-----------------------------------------------------------------------------
\* The state after ResolverTest.setUp: the registry and the resolver deployed,
\* both test nodes owned by NODE_OWNER, the resolver's storage empty.
InitResolver ==
    /\ owners = [n \in Nodes |-> NODE_OWNER]
    /\ verifiedAddresses = [n \in Nodes |-> [c \in ChainIds |-> DefaultVerifiedAddress]]
    /\ hasVerifiedAddress = [n \in Nodes |-> [c \in ChainIds |-> FALSE]]
    /\ nodeChainIds = [n \in Nodes |-> <<>>]
    /\ chainIdIndex = [n \in Nodes |-> [c \in ChainIds |-> 0]]
    /\ lastCall = Receipt("constructor", ZeroAddress, TEST_NODE, "", NoError, NoReturn)
    /\ emitted = <<>>

\* the number that tells a new handler from those in flight: the least free
nextId ==
    CHOOSE i \in 1..(Cardinality(inflight) + 1) :
      /\ \A h \in inflight : h.id # i
      /\ \A j \in 1..(i - 1) : \E h \in inflight : h.id = j

\* the handler from its call to its answer or to the await of the verifier:
\* the proof is not built and the upload not called yet
postVerify(body) ==
    LET b == verifyBegin(body) IN
    IF b.done
    THEN /\ response' = Response("/verify", body, b.status, b.body, b.calls)
         /\ UNCHANGED <<ipfsService, inflight>>
    ELSE /\ inflight' = inflight \cup
                          {[id |-> nextId, req |-> body, proof |-> <<>>,
                            calls |-> b.calls, upload |-> Undefined]}
         /\ UNCHANGED <<ipfsService, response>>

\* the handler from its resumption after the verifier to its answer or to
\* the await of the upload, the clock reading one of times
verifyContinue(h, times) ==
    /\ h.upload = Undefined
    /\ LET c == verifyChecked(h.calls) IN
       IF c.done
       THEN /\ response' = Response("/verify", h.req, c.status, c.body, c.calls)
            /\ inflight' = inflight \ {h}
       ELSE /\ \E time \in times :
                 inflight' = (inflight \ {h}) \cup
                               {[h EXCEPT !.proof = Proof(h.req, time),
                                          !.upload = Pending]}
            /\ UNCHANGED response
    /\ UNCHANGED ipfsService

\* the store settles the upload a handler waits for
storeAnswers(h, time, store) ==
    /\ h.upload = Pending
    /\ inflight' = (inflight \ {h}) \cup
                     {[h EXCEPT !.upload = uploadProof(ipfsService, time, store)]}
    /\ UNCHANGED <<ipfsService, response>>

\* Faulty variant: the proof is kept in one place for every handler.
verifyResume_SharedProof(h) ==
    /\ h.upload \notin {Undefined, Pending}
    /\ response' = verifyEnd([h EXCEPT !.proof =
                        (CHOOSE g \in inflight : g.upload # Undefined).proof])
    /\ inflight' = inflight \ {h}
    /\ UNCHANGED ipfsService

\* the handler from its resumption after the upload to its answer
verifyResume(h) ==
    /\ h.upload \notin {Undefined, Pending}
    /\ response' = verifyEnd(h)
    /\ inflight' = inflight \ {h}
    /\ UNCHANGED ipfsService

InitService(configurations) ==
    /\ ipfsService \in configurations
    /\ inflight = {}
    /\ response = NoResponse

InitHistory ==
    /\ issued = {}
    /\ verifications = {}
    /\ superseded = {}

\* The resolver on its own: the service is idle and runs on local storage.
Init == InitResolver /\ InitService({LocalStorage}) /\ InitHistory

SetOwner ==
    /\ \E n \in Nodes, a \in Accounts : setOwner(n, a)
    /\ UNCHANGED <<backend, history>>

SetVerifiedAddress ==
    /\ \E s \in Accounts, n \in Nodes :
         \E c \in ChainInputs(n), v \in Submissions :
           setVerifiedAddress(s, n, c, v.addr, v.proofHash, v.verifiedAt)
    /\ UNCHANGED <<backend, history>>

GetVerifiedAddress ==
    /\ \E s \in Accounts, n \in Nodes : \E c \in ChainInputs(n) :
         getVerifiedAddress(s, n, c)
    /\ UNCHANGED <<backend, history>>

RemoveVerifiedAddress ==
    /\ \E s \in Accounts, n \in Nodes : \E c \in ChainInputs(n) :
         removeVerifiedAddress(s, n, c)
    /\ UNCHANGED <<backend, history>>

GetNodeChainIds ==
    /\ \E s \in Accounts, n \in Nodes :
         staticCall("getNodeChainIds", s, n, "", getNodeChainIds(n))
    /\ UNCHANGED <<backend, history>>

GetVerifiedAddressCount ==
    /\ \E s \in Accounts, n \in Nodes :
         staticCall("getVerifiedAddressCount", s, n, "", getVerifiedAddressCount(n))
    /\ UNCHANGED <<backend, history>>

HasVerifiedAddressForChain ==
    /\ \E s \in Accounts, n \in Nodes : \E c \in ChainInputs(n) :
         staticCall("hasVerifiedAddressForChain", s, n, c,
                    hasVerifiedAddressForChain(n, c))
    /\ UNCHANGED <<backend, history>>

Next ==
    \/ SetOwner
    \/ SetVerifiedAddress
    \/ GetVerifiedAddress
    \/ RemoveVerifiedAddress
    \/ GetNodeChainIds
    \/ GetVerifiedAddressCount
    \/ HasVerifiedAddressForChain

Spec == Init /\ [][Next]_vars

-----------------------------------------------------------------------------
(* The verification service as a state machine: each request is a handler   *)
(* that runs to its answer or to an await.  POST /verify awaits twice: the   *)
(* promise of the verifier, settled when it is returned, and the upload of   *)
(* the proof, settled when the store answers.  Between the two halves of an  *)
(* await the handlers of other requests run.                                 *)

MaxInFlight == 1

PostChallenge ==
    /\ Cardinality(inflight) < MaxInFlight
    /\ \E body \in ChallengeBodies : postChallenge(body, Uuids, Times)
    /\ UNCHANGED <<onchain, history>>

PostVerify ==
    /\ Cardinality(inflight) < MaxInFlight
    /\ \E body \in VerifyBodies : postVerify(body)
    /\ UNCHANGED <<onchain, history>>

VerifyContinue ==
    /\ \E h \in inflight : verifyContinue(h, Times)
    /\ UNCHANGED <<onchain, history>>

StoreAnswers ==
    /\ \E h \in inflight, time \in Times, store \in StoreOutcomes :
         storeAnswers(h, time, store)
    /\ UNCHANGED <<onchain, history>>

VerifyResume ==
    /\ \E h \in inflight : verifyResume(h)
    /\ UNCHANGED <<onchain, history>>

InitBackend == InitResolver /\ InitService({RealIPFS, LocalStorage}) /\ InitHistory

NextBackend ==
    \/ PostChallenge
    \/ PostVerify
    \/ VerifyContinue
    \/ StoreAnswers
    \/ VerifyResume

SpecBackend == InitBackend /\ [][NextBackend]_vars

-----------------------------------------------------------------------------
(* utils/hash.js on its own: computeProofHash applied to a proof, to the   *)
(* same proof again, and to an object with the same fields inserted in      *)
(* another order.                                                           *)

\* the proofs hashed: one of each chain
HashedProofs ==
    { Proof(SignedBody, Time1),
      Proof([SignedBody EXCEPT !.chain = Str("Solana"),
                               !.address = Str(WalletSolana),
                               !.signature = Str(SignatureSolana)], Time2) }

\* the orders n properties can be inserted in
InsertionOrders(n) ==
    {f \in [1..n -> 1..n] : \A i, j \in 1..n : f[i] = f[j] => i = j}

\* the object with the properties of `object`, inserted in the order f
Reordered(object, f) == [i \in 1..Len(object) |-> object[f[i]]]

InitHash ==
    /\ InitResolver
    /\ InitHistory
    /\ ipfsService = LocalStorage
    /\ inflight = {}
    /\ \E proof \in HashedProofs : \E f \in InsertionOrders(Len(proof)) :
         response = Response("computeProofHash",
                             [proof |-> proof, reordered |-> Reordered(proof, f)],
                             0, Undefined, <<>>)

ComputeProofHash ==
    /\ response.route = "computeProofHash"
    /\ response.status = 0
    /\ response' = [response EXCEPT
                      !.status = 200,
                      !.body = [first     |-> computeProofHash(response.req.proof),
                                again     |-> computeProofHash(response.req.proof),
                                reordered |-> computeProofHash(response.req.reordered)]]
    /\ UNCHANGED <<ipfsService, inflight, onchain, history>>

NextHash == ComputeProofHash

SpecHash == InitHash /\ [][NextHash]_vars

-----------------------------------------------------------------------------
(* The application of index.js: the two routers, the health check, the     *)
(* error middleware and the handler of every other request.                *)

\* requests that neither router nor the health check answers: the routers
\* mount POST '/' only, the health check is a GET
UnroutedRequests ==
    { [method |-> "GET",  path |-> "/"],
      [method |-> "GET",  path |-> "/challenge"],
      [method |-> "GET",  path |-> "/verify"],
      [method |-> "POST", path |-> "/health"],
      [method |-> "POST", path |-> "/verify/proof"] }

\* app.get('/health')
GetHealth ==
    /\ \E time \in Times :
         response' = Response("/health", Undefined, 200,
                              [status    |-> "healthy",
                               timestamp |-> time,
                               service   |-> "Cross-Chain Identity Hub Backend"],
                              <<>>)
    /\ UNCHANGED <<ipfsService, inflight, onchain, history>>

\* app.use((err, req, res, next) => ...): express.json() passes the error of
\* a body that does not parse to the error middleware
BodyParseError ==
    /\ \E path \in {"/challenge", "/verify"} :
         response' = Response(path, Undefined, 500,
                              ErrorBody("Internal server error",
                                        "Unexpected end of JSON input"),
                              <<>>)
    /\ UNCHANGED <<ipfsService, inflight, onchain, history>>

\* app.use('*', ...): the 404 handler
NotFound ==
    /\ \E r \in UnroutedRequests :
         response' = Response(r.path, Undefined, 404,
                              [error |-> "Route not found"], <<>>)
    /\ UNCHANGED <<ipfsService, inflight, onchain, history>>

NextApp ==
    \/ PostChallenge
    \/ PostVerify
    \/ VerifyContinue
    \/ StoreAnswers
    \/ VerifyResume
    \/ GetHealth
    \/ BodyParseError
    \/ NotFound

SpecApp == InitBackend /\ [][NextApp]_vars

-----------------------------------------------------------------------------
(* The service under concurrent requests: a handler of POST /verify yields  *)
(* at its awaits, where other handlers of either route run.                 *)

MaxConcurrent == 2

ConcurrentChallengeBodies ==
    { [ensName |-> Str("Alice.eth"), chain |-> Str(BITCOIN_CHAIN),
       address |-> Str(WalletBitcoin)],
      [ensName |-> Str("alice.btc"), chain |-> Str("Solana"),
       address |-> Str(WalletBitcoin)] }

ConcurrentVerifyBodies ==
    { SignedBody,
      [SignedBody EXCEPT !.chain = Str("Solana"),
                         !.address = Str(WalletSolana),
                         !.signature = Str(SignatureSolana)],
      [SignedBody EXCEPT !.signature = Str(MockSignature)],
      [SignedBody EXCEPT !.nonce = Undefined] }

ConcurrentChallenge ==
    /\ \E body \in ConcurrentChallengeBodies : postChallenge(body, Uuids, Times)
    /\ UNCHANGED <<onchain, history>>

ConcurrentVerify ==
    /\ Cardinality(inflight) < MaxConcurrent
    /\ \E body \in ConcurrentVerifyBodies : postVerify(body)
    /\ UNCHANGED <<onchain, history>>

NextConcurrent ==
    \/ ConcurrentChallenge
    \/ ConcurrentVerify
    \/ VerifyContinue
    \/ StoreAnswers
    \/ VerifyResume

SpecConcurrent == InitBackend /\ [][NextConcurrent]_vars

-----------------------------------------------------------------------------
(* The composed system: the service and the resolver, with the client of   *)
(* crosschain-id-weave (LinkChain.tsx) that asks for a challenge, has it    *)
(* verified and registers a binding as the owner of the node.  The history *)
(* variables record the nonces issued and the verifications logged.        *)

SystemChallengeBodies ==
    { [ensName |-> Str(name), chain |-> Str(BITCOIN_CHAIN), address |-> Str(WalletBitcoin)] :
        name \in {"Alice.eth", "alice.btc"} }

SystemVerifyBodies ==
    { SignedBody,
      [SignedBody EXCEPT !.nonce = Str(ForgedNonce)],
      [SignedBody EXCEPT !.signature = Str(MockSignature)] }

\* Math.floor(Date.now() / 1000) of the client
ClientTime == 1640995200

\* what the client passes to setVerifiedAddress: values of its own, or the
\* address and fingerprint of the answer it received
ClientSubmissions ==
    Submissions \cup
      { [addr |-> v.address, proofHash |-> v.proofHash, verifiedAt |-> ClientTime] :
          v \in {x \in verifications : x.chain = BITCOIN_CHAIN} }

SystemChallenge ==
    /\ Cardinality(inflight) < MaxInFlight
    /\ \E body \in SystemChallengeBodies : postChallenge(body, Uuids, {Time1})
    /\ issued' = IF response'.status = 200
                 THEN issued \cup {response'.body.nonce} ELSE issued
    /\ UNCHANGED <<onchain, verifications, superseded>>

SystemVerify ==
    /\ Cardinality(inflight) < MaxInFlight
    /\ \E body \in SystemVerifyBodies : postVerify(body)
    /\ UNCHANGED <<onchain, history>>

SystemVerifyContinue ==
    /\ \E h \in inflight : verifyContinue(h, {Time1})
    /\ UNCHANGED <<onchain, history>>

SystemStoreAnswers ==
    /\ \E h \in inflight, store \in StoreOutcomes : storeAnswers(h, Time1, store)
    /\ UNCHANGED <<onchain, history>>

SystemVerifyResume ==
    /\ \E h \in inflight :
         /\ verifyResume(h)
         /\ verifications' = verifications \cup {Verification(verifyEnd(h))}
    /\ UNCHANGED <<onchain, issued, superseded>>

SystemRegister ==
    /\ \E s \in Accounts, v \in ClientSubmissions :
         setVerifiedAddress(s, TEST_NODE, BITCOIN_CHAIN, v.addr, v.proofHash,
                            v.verifiedAt)
    /\ UNCHANGED <<backend, history>>

InitSystem == InitResolver /\ InitService({LocalStorage}) /\ InitHistory

NextSystem ==
    \/ SystemChallenge
    \/ SystemVerify
    \/ SystemVerifyContinue
    \/ SystemStoreAnswers
    \/ SystemVerifyResume
    \/ SystemRegister

SpecSystem == InitSystem /\ [][NextSystem]_vars

\* the proofs the handlers of the composed system build
SystemProofs == {Proof(body, Time1) : body \in SystemVerifyBodies}

\* the steps SystemVerifyContinue and SystemVerifyResume take: a handler
\* whose awaited promise has settled (the verifier's at once, the upload's
\* when the store has answered) leaves the await
Resumed ==
    \E h \in inflight :
      \/ /\ h.upload = Undefined
         /\ \/ inflight' = inflight \ {h}
            \/ \E proof \in SystemProofs :
                 inflight' = (inflight \ {h}) \cup
                               {[h EXCEPT !.proof = proof, !.upload = Pending]}
      \/ /\ h.upload \notin {Undefined, Pending}
         /\ inflight' = inflight \ {h}

\* A handler whose awaited promise has settled runs on: the event loop
\* leaves no ready continuation waiting.  Nothing obliges the store to
\* answer.
SpecSystemFair == SpecSystem /\ WF_inflight(Resumed)

-----------------------------------------------------------------------------
(* The resolver with the history of its bindings: superseded holds every   *)
(* value a key held and holds no longer.                                   *)

Binding(node, chainId) ==
    [node |-> node, chainId |-> chainId, value |-> verifiedAddresses[node][chainId]]

\* the stored value of the key the call was on, if the call replaced it
Displaced(node, chainId) ==
    IF /\ hasVerifiedAddress[node][chainId]
       /\ lastCall'.err = NoError
       /\ \/ ~hasVerifiedAddress'[node][chainId]
          \/ verifiedAddresses'[node][chainId] # verifiedAddresses[node][chainId]
    THEN {Binding(node, chainId)}
    ELSE {}

ReplaySet ==
    /\ \E s \in Accounts, c \in {BITCOIN_CHAIN, SOLANA_CHAIN}, v \in Submissions :
         /\ setVerifiedAddress(s, TEST_NODE, c, v.addr, v.proofHash, v.verifiedAt)
         /\ superseded' = superseded \cup Displaced(TEST_NODE, c)
    /\ UNCHANGED <<backend, issued, verifications>>

ReplayRemove ==
    /\ \E s \in Accounts, c \in {BITCOIN_CHAIN, SOLANA_CHAIN} :
         /\ removeVerifiedAddress(s, TEST_NODE, c)
         /\ superseded' = superseded \cup Displaced(TEST_NODE, c)
    /\ UNCHANGED <<backend, issued, verifications>>

NextReplay ==
    \/ ReplaySet
    \/ ReplayRemove

SpecReplay == Init /\ [][NextReplay]_vars

-----------------------------------------------------------------------------
(* Properties of the on-chain registry.                                    *)

\* the chain ids bound for a node
BoundChains(node) == {c \in ChainIds : hasVerifiedAddress[node][c]}

\* the slots of a list that hold a chain id
SlotsOf(list, chainId) == {i \in 1..Len(list) : list[i] = chainId}

\* This step is the call op(s, n, c, ...): the new receipt names it (every
\* call writes its name, caller, node and chain id into its receipt) and the
\* step is a step of that call.
SetStep(s, n, c, v) ==
    /\ lastCall'.op = "setVerifiedAddress"
    /\ setVerifiedAddress(s, n, c, v.addr, v.proofHash, v.verifiedAt)
RemoveStep(s, n, c) ==
    /\ lastCall'.op = "removeVerifiedAddress"
    /\ removeVerifiedAddress(s, n, c)
GetStep(s, n, c) ==
    /\ lastCall'.op = "getVerifiedAddress"
    /\ getVerifiedAddress(s, n, c)

\* P holds of the caller, node and chain id of the call this step makes.
ForTx(P(_, _, _)) ==
    \A n \in Nodes : n = lastCall'.node =>
      \A c \in ChainIds : c = lastCall'.chainId =>
        \A s \in Accounts : s = lastCall'.sender => P(s, n, c)

\* a call that reverted: typed error, storage and log untouched
RevertedWith(err) ==
    /\ lastCall'.err = err
    /\ emitted' = <<>>
    /\ UNCHANGED registry

\* C1: Registry membership invariant.  For every node and chain id, the
\* hasVerifiedAddress flag is set iff the chain id occurs in the node's chain
\* list; a listed chain id occurs exactly once, the recorded index points at
\* its slot, and getVerifiedAddressCount equals the number of bound chain ids.
C1_MembershipInvariant ==
    \A n \in Nodes :
        /\ \A c \in ChainIds :
            /\ hasVerifiedAddress[n][c] <=> SlotsOf(nodeChainIds[n], c) # {}
            /\ Cardinality(SlotsOf(nodeChainIds[n], c)) <= 1
            /\ hasVerifiedAddress[n][c] =>
                  /\ chainIdIndex[n][c] < Len(nodeChainIds[n])
                  /\ At(nodeChainIds[n], chainIdIndex[n][c]) = c
        /\ getVerifiedAddressCount(n) = Cardinality(BoundChains(n))

\* C1 witness: a removal has just compacted TEST_NODE's list of three chain
\* ids to two, the survivor of the swap sitting in slot 0.
C1_Witness ==
    /\ lastCall.op = "removeVerifiedAddress"
    /\ lastCall.err = NoError
    /\ lastCall.chainId = BITCOIN_CHAIN
    /\ nodeChainIds[TEST_NODE] = <<LongChainId, SOLANA_CHAIN>>
    /\ chainIdIndex[TEST_NODE][LongChainId] = 0

\* C2: Ownership gate.  A setVerifiedAddress or removeVerifiedAddress call by
\* an account that is not the ENS owner of the node fails with
\* NotNodeOwner(node, caller) and changes neither the bindings, the chain
\* lists, the indices nor the event log.
C2_OwnershipGate ==
    [][ForTx(LAMBDA s, n, c :
         ensOwner(n) # s =>
           /\ \A v \in Submissions :
                SetStep(s, n, c, v) => RevertedWith(NotNodeOwner(n, s))
           /\ RemoveStep(s, n, c) => RevertedWith(NotNodeOwner(n, s)))]_vars

\* C2 witness: a non-owner has just tried to remove an existing binding, was
\* refused, and the binding is still there.
C2_Witness ==
    /\ lastCall.op = "removeVerifiedAddress"
    /\ lastCall.err = NotNodeOwner(lastCall.node, lastCall.sender)
    /\ ensOwner(lastCall.node) # lastCall.sender
    /\ hasVerifiedAddress[lastCall.node][lastCall.chainId]

\* what getVerifiedAddress answers for a binding holding the submission v
Returns(v) == [err |-> NoError, ret |-> <<v.addr, v.proofHash, v.verifiedAt>>]

\* the set of chain ids in a list
Range(list) == {list[i] : i \in 1..Len(list)}

\* C3: Ownership is evaluated at call time.  Whoever the ENS registry names as
\* owner of the node when the call is made is the one account whose writes
\* pass the gate, whoever wrote the bindings before: a write fails with
\* NotNodeOwner iff the caller is not the current owner, the current owner's
\* valid set stores its values and its remove of a bound key unbinds it, and
\* a change of owner alters no binding.
C3_OwnershipAtCallTime ==
    [][/\ owners' # owners =>
            /\ UNCHANGED registry
            /\ \A m \in Nodes, c \in ChainIds :
                  getVerifiedAddressResult(m, c)' = getVerifiedAddressResult(m, c)
       /\ ForTx(LAMBDA s, n, c :
            /\ \A v \in Submissions :
                 SetStep(s, n, c, v) =>
                   /\ lastCall'.err = NotNodeOwner(n, s) <=> ensOwner(n) # s
                   /\ (ensOwner(n) = s /\ v.addr # "" /\ c # "") =>
                        /\ lastCall'.err = NoError
                        /\ getVerifiedAddressResult(n, c)' = Returns(v)
            /\ RemoveStep(s, n, c) =>
                   /\ lastCall'.err = NotNodeOwner(n, s) <=> ensOwner(n) # s
                   /\ (ensOwner(n) = s /\ hasVerifiedAddress[n][c]) =>
                        /\ lastCall'.err = NoError
                        /\ ~hasVerifiedAddress'[n][c])]_vars

\* C3 witness: TEST_NODE, owned by NODE_OWNER at first, now belongs to
\* NON_OWNER; the former owner has just been refused on it while a binding
\* of the node is still bound.
C3_Witness ==
    /\ ensOwner(TEST_NODE) = NON_OWNER
    /\ lastCall.op = "setVerifiedAddress"
    /\ lastCall.err = NotNodeOwner(TEST_NODE, NODE_OWNER)
    /\ hasVerifiedAddress[TEST_NODE][BITCOIN_CHAIN]

\* C4: Registry round trip.  After a successful setVerifiedAddress(node,
\* chainId, addr, proofHash, verifiedAt), getVerifiedAddress(node, chainId)
\* returns exactly (addr, proofHash, verifiedAt), and its answer (a function
\* of the binding and its flag) changes only by a successful set or remove on
\* the same (node, chainId).
C4_RoundTrip ==
    [][/\ ForTx(LAMBDA s, n, c :
            \A v \in Submissions :
              (SetStep(s, n, c, v) /\ lastCall'.err = NoError) =>
                 getVerifiedAddressResult(n, c)' = Returns(v))
       /\ <<verifiedAddresses, hasVerifiedAddress>>' #
             <<verifiedAddresses, hasVerifiedAddress>> =>
            \A n \in Nodes, c \in ChainIds :
              getVerifiedAddressResult(n, c)' # getVerifiedAddressResult(n, c) =>
                /\ lastCall'.err = NoError
                /\ \E s \in Accounts :
                      \/ \E v \in Submissions : SetStep(s, n, c, v)
                      \/ RemoveStep(s, n, c)]_vars

\* C4 witness: a read has just returned the very long address stored under
\* the very long chain id, with its hash and time.
C4_Witness ==
    /\ lastCall.op = "getVerifiedAddress"
    /\ lastCall.chainId = LongChainId
    /\ lastCall.err = NoError
    /\ lastCall.ret = <<LongAddr, ZeroHash, 0>>

\* C5: Bound -> Absent.  After removeVerifiedAddress by the owner on a bound
\* key, hasVerifiedAddressForChain is false, getVerifiedAddress fails with
\* VerifiedAddressNotFound(node, chainId) and getVerifiedAddressCount is one
\* less than before.
C5_RemoveUnbinds ==
    [][ForTx(LAMBDA s, n, c :
         (RemoveStep(s, n, c) /\ ensOwner(n) = s /\ hasVerifiedAddress[n][c]) =>
            /\ lastCall'.err = NoError
            /\ ~hasVerifiedAddressForChain(n, c)'
            /\ getVerifiedAddressResult(n, c)' =
                  [err |-> VerifiedAddressNotFound(n, c), ret |-> NoReturn]
            /\ getVerifiedAddressCount(n)' = getVerifiedAddressCount(n) - 1)]_vars

\* C5 witness: the only binding of TEST_NODE has just been removed by its
\* owner; the key is absent and the count is back to 0.
C5_Witness ==
    /\ lastCall = Receipt("removeVerifiedAddress", ensOwner(TEST_NODE), TEST_NODE,
                          BITCOIN_CHAIN, NoError, NoReturn)
    /\ ~hasVerifiedAddressForChain(TEST_NODE, BITCOIN_CHAIN)
    /\ getVerifiedAddressResult(TEST_NODE, BITCOIN_CHAIN).err =
          VerifiedAddressNotFound(TEST_NODE, BITCOIN_CHAIN)
    /\ getVerifiedAddressCount(TEST_NODE) = 0

\* C6: Set compaction.  A successful removal from a node with n bound chain
\* ids, whatever the slot of the removed one, leaves a list of exactly the
\* other n-1 chain ids, each once; the removed chain is no longer bound and
\* every other chain still returns the values it had.
C6_Compaction ==
    [][ForTx(LAMBDA s, n, c :
         (RemoveStep(s, n, c) /\ lastCall'.err = NoError) =>
            /\ Range(getNodeChainIds(n)') = Range(getNodeChainIds(n)) \ {c}
            /\ \A d \in ChainIds : Cardinality(SlotsOf(getNodeChainIds(n)', d)) <= 1
            /\ getVerifiedAddressCount(n)' = getVerifiedAddressCount(n) - 1
            /\ ~hasVerifiedAddressForChain(n, c)'
            /\ \A d \in ChainIds \ {c} :
                  getVerifiedAddressResult(n, d)' = getVerifiedAddressResult(n, d))]_vars

\* C6 witness: SOLANA_CHAIN has just been removed from TEST_NODE, leaving the
\* two other chain ids listed and retrievable.
C6_Witness ==
    /\ lastCall.op = "removeVerifiedAddress"
    /\ lastCall.err = NoError
    /\ lastCall.node = TEST_NODE
    /\ lastCall.chainId = SOLANA_CHAIN
    /\ getNodeChainIds(TEST_NODE) = <<BITCOIN_CHAIN, LongChainId>>
    /\ getVerifiedAddressResult(TEST_NODE, BITCOIN_CHAIN).err = NoError
    /\ getVerifiedAddressResult(TEST_NODE, LongChainId).err = NoError

\* C7: Overwrite is last-write-wins.  A successful setVerifiedAddress on a
\* key that is already bound stores exactly the new addr, proofHash and
\* verifiedAt and leaves the chain lists, their order, the indices and the
\* count as they were.
C7_Overwrite ==
    [][ForTx(LAMBDA s, n, c : \A v \in Submissions :
         (SetStep(s, n, c, v) /\ lastCall'.err = NoError /\ hasVerifiedAddress[n][c]) =>
            /\ verifiedAddresses'[n][c] =
                  [addr |-> v.addr, proofHash |-> v.proofHash, verifiedAt |-> v.verifiedAt]
            /\ nodeChainIds' = nodeChainIds
            /\ chainIdIndex' = chainIdIndex
            /\ getVerifiedAddressCount(n)' = getVerifiedAddressCount(n))]_vars

\* C7 witness: the chain id just written sits in slot 0 of a longer list, so
\* the write was an overwrite (a first write appends), and the binding holds
\* the values of the second submission.
C7_Witness ==
    /\ lastCall.op = "setVerifiedAddress"
    /\ lastCall.err = NoError
    /\ getVerifiedAddressCount(lastCall.node) >= 2
    /\ At(getNodeChainIds(lastCall.node), 0) = lastCall.chainId
    /\ verifiedAddresses[lastCall.node][lastCall.chainId] =
          [addr |-> LongAddr, proofHash |-> ZeroHash, verifiedAt |-> 0]

\* C8: Idempotence.  A setVerifiedAddress call that repeats the successful
\* call just before it, argument for argument, succeeds and leaves the
\* binding, the chain lists, the indices and the count as the first call
\* left them.
C8_Idempotent ==
    [][ForTx(LAMBDA s, n, c : \A v \in Submissions :
         ( /\ lastCall = Receipt("setVerifiedAddress", s, n, c, NoError, NoReturn)
           /\ emitted = <<VerifiedAddressSet(n, c, v.addr, v.proofHash, v.verifiedAt)>>
           /\ ensOwner(n) = s
           /\ SetStep(s, n, c, v) ) =>
            /\ lastCall'.err = NoError
            /\ UNCHANGED registry)]_vars

\* C8 witness: the state a successful set leaves, which is also the state
\* its repetition leaves.
C8_Witness ==
    /\ lastCall = Receipt("setVerifiedAddress", NODE_OWNER, TEST_NODE,
                          BITCOIN_CHAIN, NoError, NoReturn)
    /\ emitted = <<VerifiedAddressSet(TEST_NODE, BITCOIN_CHAIN, BITCOIN_ADDR,
                                      PROOF_HASH_1, 1640995200)>>
    /\ ensOwner(TEST_NODE) = NODE_OWNER
    /\ getNodeChainIds(TEST_NODE) = <<BITCOIN_CHAIN>>

\* C9: Input validation of setVerifiedAddress.  Called by the owner, it fails
\* with EmptyAddress if addr is empty, else with EmptyChainId if chainId is
\* empty, changing nothing; with both non-empty it succeeds and binds the
\* key, whatever the chain id, the hash and the time.
C9_SetValidation ==
    [][ForTx(LAMBDA s, n, c : \A v \in Submissions :
         (SetStep(s, n, c, v) /\ ensOwner(n) = s) =>
            /\ v.addr = "" => RevertedWith(EmptyAddress)
            /\ (v.addr # "" /\ c = "") => RevertedWith(EmptyChainId)
            /\ (v.addr # "" /\ c # "") =>
                  /\ lastCall'.err = NoError
                  /\ hasVerifiedAddress'[n][c]
                  /\ getVerifiedAddressResult(n, c)' = Returns(v))]_vars

\* C9 witness: the owner's call with an address and an empty chain id has
\* just failed with EmptyChainId.
C9_Witness ==
    /\ lastCall.op = "setVerifiedAddress"
    /\ lastCall.sender = ensOwner(lastCall.node)
    /\ lastCall.chainId = ""
    /\ lastCall.err = EmptyChainId

\* C10: Operations on an absent key.  For a (node, chainId) that is not
\* bound, getVerifiedAddress by anyone and removeVerifiedAddress by the owner
\* fail with VerifiedAddressNotFound(node, chainId) and change nothing.
C10_AbsentKey ==
    [][ForTx(LAMBDA s, n, c :
         ~hasVerifiedAddress[n][c] =>
            /\ GetStep(s, n, c) => RevertedWith(VerifiedAddressNotFound(n, c))
            /\ (RemoveStep(s, n, c) /\ ensOwner(n) = s) =>
                  RevertedWith(VerifiedAddressNotFound(n, c)))]_vars

\* C10 witness: the owner has just tried to remove a key that is absent, on
\* a node that has another binding, and was answered VerifiedAddressNotFound.
C10_Witness ==
    /\ lastCall.op = "removeVerifiedAddress"
    /\ lastCall.sender = ensOwner(lastCall.node)
    /\ lastCall.err = VerifiedAddressNotFound(lastCall.node, lastCall.chainId)
    /\ ~hasVerifiedAddress[lastCall.node][lastCall.chainId]
    /\ getVerifiedAddressCount(lastCall.node) > 0

\* the four read functions of the resolver
ReadOps == {"getVerifiedAddress", "getNodeChainIds", "getVerifiedAddressCount",
            "hasVerifiedAddressForChain"}

\* What a read answers in the current state: a function of the storage, the
\* node and the chain id, with no caller in it.
ReadAnswer(op, n, c) ==
    CASE op = "getVerifiedAddress" -> getVerifiedAddressResult(n, c)
      [] op = "getNodeChainIds" ->
            [err |-> NoError, ret |-> <<getNodeChainIds(n)>>]
      [] op = "getVerifiedAddressCount" ->
            [err |-> NoError, ret |-> <<getVerifiedAddressCount(n)>>]
      [] op = "hasVerifiedAddressForChain" ->
            [err |-> NoError, ret |-> <<hasVerifiedAddressForChain(n, c)>>]

\* A step that leaves the ENS registry alone is a call to the resolver, the
\* one its new receipt names (setOwner is the only other step).
ResolverCall(ops) == owners' = owners /\ lastCall'.op \in ops

\* C11: Reads are open and pure.  getVerifiedAddress, getNodeChainIds,
\* getVerifiedAddressCount and hasVerifiedAddressForChain are never refused
\* for ownership, answer every caller, owner or not, with the same result (a
\* function of the storage, the node and the chain id alone, so that the same
\* read repeated by another account returns the same), and change neither
\* the bindings, the chain lists, the indices nor the event log.
C11_ReadsOpenAndPure ==
    [][ResolverCall(ReadOps) =>
         /\ UNCHANGED registry
         /\ emitted' = <<>>
         /\ lastCall'.err.kind # "NotNodeOwner"
         /\ ForTx(LAMBDA s, n, c :
               /\ lastCall'.err = ReadAnswer(lastCall'.op, n, c).err
               /\ lastCall'.ret = ReadAnswer(lastCall'.op, n, c).ret
               /\ ( /\ lastCall.op = lastCall'.op
                    /\ lastCall.node = n
                    /\ lastCall.chainId = c ) =>
                      /\ lastCall'.err = lastCall.err
                      /\ lastCall'.ret = lastCall.ret)]_vars

\* C11 witness: an account that does not own TEST_NODE has just read the
\* two-element chain list of the node.
C11_Witness ==
    /\ lastCall.op = "getNodeChainIds"
    /\ lastCall.node = TEST_NODE
    /\ lastCall.sender # ensOwner(TEST_NODE)
    /\ lastCall.err = NoError
    /\ lastCall.ret = << <<BITCOIN_CHAIN, SOLANA_CHAIN>> >>

\* C12: The event log mirrors the successful writes.  Each successful
\* setVerifiedAddress, first write or overwrite, logs exactly one
\* VerifiedAddressSet with the node, chain id, address, proof hash and time of
\* the call; each successful removeVerifiedAddress logs exactly one
\* VerifiedAddressRemoved with its node and chain id; a reverted call and a
\* read log nothing.  So every change of the storage is logged, and a logged
\* entry describes the key as the call left it.
C12_EventLog ==
    [][/\ ForTx(LAMBDA s, n, c :
            /\ \A v \in Submissions :
                 SetStep(s, n, c, v) =>
                   emitted' =
                     IF lastCall'.err = NoError
                     THEN << [event |-> "VerifiedAddressSet", node |-> n,
                              chainId |-> c, addr |-> v.addr,
                              proofHash |-> v.proofHash,
                              verifiedAt |-> v.verifiedAt] >>
                     ELSE <<>>
            /\ RemoveStep(s, n, c) =>
                   emitted' =
                     IF lastCall'.err = NoError
                     THEN << [event |-> "VerifiedAddressRemoved", node |-> n,
                              chainId |-> c] >>
                     ELSE <<>>
            /\ ResolverCall({"setVerifiedAddress", "removeVerifiedAddress"}) =>
                 /\ registry' # registry => Len(emitted') = 1
                 /\ Len(emitted') = 1 =>
                      /\ lastCall'.err = NoError
                      /\ emitted'[1].node = n
                      /\ emitted'[1].chainId = c
                      /\ IF emitted'[1].event = "VerifiedAddressSet"
                         THEN getVerifiedAddressResult(n, c)' =
                                [err |-> NoError,
                                 ret |-> <<emitted'[1].addr, emitted'[1].proofHash,
                                           emitted'[1].verifiedAt>>]
                         ELSE ~hasVerifiedAddressForChain(n, c)')
       /\ ResolverCall(ReadOps) => emitted' = <<>>
       /\ Len(emitted') <= 1]_vars

\* C12 witness: an overwrite of a bound key (the chain id sits in slot 0 of a
\* longer list) has just logged one VerifiedAddressSet carrying the new
\* address, the zero hash and the zero time.
C12_Witness ==
    /\ lastCall.op = "setVerifiedAddress"
    /\ lastCall.err = NoError
    /\ getVerifiedAddressCount(lastCall.node) >= 2
    /\ At(getNodeChainIds(lastCall.node), 0) = lastCall.chainId
    /\ emitted = << [event |-> "VerifiedAddressSet", node |-> lastCall.node,
                     chainId |-> lastCall.chainId, addr |-> LongAddr,
                     proofHash |-> ZeroHash, verifiedAt |-> 0] >>

-----------------------------------------------------------------------------
(* Properties of the verification service.                                 *)

\* the answers of the service, as the client reads them
Failure(r, status, error) ==
    /\ r.status = status
    /\ r.body.error = error

\* a field a request leaves out: undefined, null, the empty string, 0
Missing(v) == ~truthy(v)

\* a chain field naming one of the supported chains, in any letter case
Supported(v) ==
    /\ v.type = "string"
    /\ toLowerCase(v.value) \in {"bitcoin", "solana"}

\* a name field ending in .eth
DotEth(v) ==
    /\ v.type = "string"
    /\ Len(v.value) >= 4
    /\ SubSeq(v.value, Len(v.value) - 3, Len(v.value)) = ".eth"

\* C20: POST /challenge validates in order, the first failing validation
\* naming the error: a missing ensName, chain or address is answered 400
\* 'Missing required fields'; else a chain outside {bitcoin, solana} 400
\* 'Unsupported chain'; else a name not ending in '.eth' 400 'Invalid ENS
\* name'; and the answer is 200 exactly when all three validations pass.
C20_ChallengeValidationOrder ==
    response.route = "/challenge" =>
      LET req == response.req
          missing == Missing(req.ensName) \/ Missing(req.chain) \/ Missing(req.address)
      IN
      /\ missing => Failure(response, 400, "Missing required fields")
      /\ ~missing /\ ~Supported(req.chain) =>
            Failure(response, 400, "Unsupported chain")
      /\ ~missing /\ Supported(req.chain) /\ ~DotEth(req.ensName) =>
            Failure(response, 400, "Invalid ENS name")
      /\ response.status = 200 <=>
            ~missing /\ Supported(req.chain) /\ DotEth(req.ensName)

\* the calls a handler made, by the name of the function called
Ran(calls, fns) == {i \in 1..Len(calls) : calls[i].fn \in fns}
Verifiers == {"bitcoinVerify.verifySignature", "solanaVerify.verifySignature"}
ProofSteps == {"ipfsService.uploadProof", "computeProofHash"}

\* C16: POST /verify runs its steps in order and stops at the first failure:
\* a missing chain, address, signature, nonce or message is answered 400
\* 'Missing required fields'; else an unsupported chain 400 'Unsupported
\* chain'; else a verifier returning false 400 'Invalid signature'.  On a
\* failure no proof is built, hashed or persisted: uploadProof and
\* computeProofHash run only after the verifier has returned true.
C16_VerifyStepOrder ==
    /\ response.route = "/verify" =>
         LET req == response.req
             calls == response.calls
             missing == \E f \in VerifyFields : Missing(req[f])
             saidFalse == \E i \in Ran(calls, Verifiers) :
                             calls[i].result = [throws |-> FALSE, value |-> FALSE]
         IN
         /\ missing => Failure(response, 400, "Missing required fields")
         /\ ~missing /\ ~Supported(req.chain) =>
               Failure(response, 400, "Unsupported chain")
         /\ ~missing /\ Supported(req.chain) /\ saidFalse =>
               Failure(response, 400, "Invalid signature")
         /\ response.status # 200 => Ran(calls, ProofSteps) = {}
         /\ \A j \in Ran(calls, ProofSteps) :
               \E i \in Ran(calls, Verifiers) :
                 /\ i < j
                 /\ calls[i].result = [throws |-> FALSE, value |-> TRUE]
    /\ \A h \in inflight :
         /\ Ran(h.calls, Verifiers) = {1}
         /\ h.upload # Undefined =>
               h.calls[1].result = [throws |-> FALSE, value |-> TRUE]

\* C17: when the upload of the proof is rejected after a successful
\* verification, POST /verify still answers 200 with success true, the
\* fingerprint of the proof and ipfsHash null; no request whose signature
\* verified is answered with an error.
C17_DegradeNotFail ==
    response.route = "/verify" =>
      LET req == response.req
          calls == response.calls
      IN
      /\ \A j \in Ran(calls, {"ipfsService.uploadProof"}) :
            calls[j].result.throws =>
              /\ response.status = 200
              /\ response.body.success = TRUE
              /\ response.body.ipfsHash = [type |-> "null"]
              /\ response.body.proofHash =
                    computeProofHash(Proof(req, response.body.metadata.verifiedAt))
      /\ \A i \in Ran(calls, Verifiers) :
            calls[i].result = [throws |-> FALSE, value |-> TRUE] =>
              /\ response.status = 200
              /\ response.body.success = TRUE

C17_Witness ==
    /\ response.route = "/verify"
    /\ response.req = SignedBody
    /\ response.status = 200
    /\ response.body.ipfsHash = [type |-> "null"]
    /\ Len(response.calls) = 3
    /\ response.calls[2] =
         [fn |-> "ipfsService.uploadProof",
          result |-> [throws |-> TRUE,
                      message |-> "Failed to upload proof: connect ECONNREFUSED 127.0.0.1:5001"]]

\* the verifier calls of the handlers that have answered or are waiting
VerifierCalls ==
    { [req |-> response.req, call |-> response.calls[i]] :
        i \in Ran(response.calls, Verifiers) }
      \cup UNION { { [req |-> h.req, call |-> h.calls[i]] :
                       i \in Ran(h.calls, Verifiers) } : h \in inflight }

\* C19: the Bitcoin and Solana verifySignature never throw: every call
\* returns a boolean; an address failing the chain's format check gives false
\* whatever the signature, without a call of the cryptographic library; and
\* an internal error (a signature with a character outside base 58, a key or
\* signature of the wrong length, an exception of the library) gives false.
C19_VerifiersNeverThrow ==
    \A c \in VerifierCalls :
      LET address   == c.req.address.value
          signature == c.req.signature.value
          bitcoin   == c.call.fn = "bitcoinVerify.verifySignature"
          no        == [throws |-> FALSE, value |-> FALSE]
      IN
      /\ ~c.call.result.throws
      /\ c.call.result.value \in BOOLEAN
      /\ bitcoin /\ ~isValidBitcoinAddress(address) =>
            c.call.result = no /\ c.call.crypto = <<>>
      /\ ~bitcoin /\ ~isValidSolanaAddress(address) =>
            c.call.result = no /\ c.call.crypto = <<>>
      /\ bitcoin /\ base64Length(signature) # 65 => c.call.result = no
      /\ ~bitcoin /\ ~AllIn(signature, 1, Base58Chars) => c.call.result = no
      /\ ~bitcoin /\ decodedLength(address) # 32 => c.call.result = no
      /\ ~bitcoin /\ AllIn(signature, 1, Base58Chars) /\ decodedLength(signature) # 64 =>
            c.call.result = no

C19_Witness ==
    /\ response.route = "/verify"
    /\ response.req.address = Str(WalletBitcoin)
    /\ response.req.signature = Str(SignatureSolana)
    /\ response.status = 400
    /\ \E c \in VerifierCalls :
         /\ c.call.fn = "solanaVerify.verifySignature"
         /\ c.call.result = [throws |-> FALSE, value |-> FALSE]
         /\ c.call.crypto = <<"nacl.sign.detached.verify">>

\* C18: after a successful signature verification POST /verify eventually
\* answers, also when the proof store is slow or never answers: no handler
\* stays waiting for the upload for ever.
C18_BoundedPersistence == (inflight # {}) ~> (inflight = {})

-----------------------------------------------------------------------------
(* Properties of the composed system.                                      *)

\* C13: every binding the resolver holds carries an address and a proof
\* fingerprint that the verification service produced from a successful
\* signature verification of that address on that chain; a binding no
\* verification produced is never stored.
C13_Provenance ==
    \A n \in Nodes, c \in ChainIds :
      hasVerifiedAddress[n][c] =>
        \E v \in verifications :
          /\ v.chain = c
          /\ v.address = verifiedAddresses[n][c].addr
          /\ v.proofHash = verifiedAddresses[n][c].proofHash

\* C14: a challenge is used once: a POST /verify succeeds only with a nonce
\* the service issued, and only if no earlier POST /verify succeeded with
\* that nonce.
C14_SingleUse ==
    [][\A h \in inflight :
         (/\ h.upload \notin {Undefined, Pending}
          /\ h \notin inflight'
          /\ response'.status = 200) =>
           /\ h.req.nonce.value \in issued
           /\ \A v \in verifications : v.nonce # h.req.nonce.value]_vars

\* C15: the resolver resists replay: a setVerifiedAddress that submits again
\* an (address, proofHash, verifiedAt) stored earlier under the same
\* (node, chainId) and since overwritten or removed does not bring that
\* binding back.
C15_ReplayResistance ==
    [][\A x \in superseded :
         ~ /\ lastCall'.op = "setVerifiedAddress"
           /\ lastCall'.err = NoError
           /\ lastCall'.node = x.node
           /\ lastCall'.chainId = x.chainId
           /\ Binding(x.node, x.chainId) # x
           /\ hasVerifiedAddress'[x.node][x.chainId]
           /\ verifiedAddresses'[x.node][x.chainId] = x.value]_vars

-----------------------------------------------------------------------------
(* Frame and precedence properties of the on-chain registry.               *)

\* the chain id in the last slot of a node's list
LastOf(list) == list[Len(list)]

\* C24 as claimed: a successful removeVerifiedAddress leaves the recorded
\* index and the list position of every other chain id that stays bound as
\* they were; only the index entry of the removed chain id changes.
C24_RemovePreservesIndices ==
    [][ForTx(LAMBDA s, n, c :
         (RemoveStep(s, n, c) /\ lastCall'.err = NoError) =>
            \A d \in ChainIds \ {c} :
              /\ chainIdIndex'[n][d] = chainIdIndex[n][d]
              /\ hasVerifiedAddress'[n][d] =>
                    SlotsOf(nodeChainIds'[n], d) = SlotsOf(nodeChainIds[n], d))]_vars

\* C24 amended: a successful removeVerifiedAddress leaves the recorded index
\* and the list position of every other chain id that stays bound as they
\* were, except the chain id of the last slot: when the removed chain id was
\* not in the last slot, the chain id of the last slot takes over the slot
\* and the index of the removed one.  Only the index entries of the removed
\* chain id and of that moved chain id change.
C24_RemoveMovesOnlyLast ==
    [][ForTx(LAMBDA s, n, c :
         (RemoveStep(s, n, c) /\ lastCall'.err = NoError) =>
            LET last == LastOf(nodeChainIds[n]) IN
            /\ \A d \in ChainIds \ {c, last} :
                  /\ chainIdIndex'[n][d] = chainIdIndex[n][d]
                  /\ hasVerifiedAddress'[n][d] =>
                        SlotsOf(nodeChainIds'[n], d) = SlotsOf(nodeChainIds[n], d)
            /\ last # c =>
                  /\ hasVerifiedAddress'[n][last]
                  /\ chainIdIndex'[n][last] = chainIdIndex[n][c]
                  /\ SlotsOf(nodeChainIds'[n], last) = SlotsOf(nodeChainIds[n], c)
            /\ chainIdIndex'[n][c] = 0)]_vars

\* C24 witness: the owner has just removed the first of three chain ids; the
\* chain id of the last slot sits in the first slot, the middle one where it
\* was.
C24_Witness ==
    /\ lastCall.op = "removeVerifiedAddress"
    /\ lastCall.err = NoError
    /\ lastCall.node = TEST_NODE
    /\ lastCall.chainId = BITCOIN_CHAIN
    /\ nodeChainIds[TEST_NODE] = <<LongChainId, SOLANA_CHAIN>>
    /\ chainIdIndex[TEST_NODE][LongChainId] = 0
    /\ chainIdIndex[TEST_NODE][SOLANA_CHAIN] = 1

\* C28: in the two registry writes the ownership check comes before every
\* other check: a call by an account that does not own the node fails with
\* NotNodeOwner whatever its arguments (empty addr, empty chainId, a binding
\* that does not exist), and a setVerifiedAddress by the owner with addr and
\* chainId both empty fails with EmptyAddress, not EmptyChainId.
C28_CheckPrecedence ==
    [][ForTx(LAMBDA s, n, c :
         /\ \A v \in Submissions :
               (SetStep(s, n, c, v) /\ ensOwner(n) # s) =>
                  RevertedWith([kind |-> "NotNodeOwner", node |-> n, caller |-> s])
         /\ (RemoveStep(s, n, c) /\ ensOwner(n) # s) =>
               RevertedWith([kind |-> "NotNodeOwner", node |-> n, caller |-> s])
         /\ \A v \in Submissions :
               (SetStep(s, n, c, v) /\ ensOwner(n) = s /\ v.addr = "" /\ c = "") =>
                  RevertedWith([kind |-> "EmptyAddress"]))]_vars

\* C28 witness: an account that does not own the node has just called
\* setVerifiedAddress with an empty chainId and was refused as not the owner.
C28_Witness ==
    /\ lastCall.op = "setVerifiedAddress"
    /\ lastCall.sender = NON_OWNER
    /\ lastCall.node = TEST_NODE
    /\ lastCall.chainId = ""
    /\ ensOwner(TEST_NODE) # NON_OWNER
    /\ lastCall.err = [kind |-> "NotNodeOwner", node |-> TEST_NODE, caller |-> NON_OWNER]

\* C29: a successful setVerifiedAddress or removeVerifiedAddress on
\* (node, chainId) leaves the bindings, flags, chain-id list, count and
\* indices of every other node as they were, and leaves the stored
\* (addr, proofHash, verifiedAt) and the hasVerifiedAddress flag of every
\* other chain id of the same node as they were.
C29_KeyIsolation ==
    [][ForTx(LAMBDA s, n, c :
         (/\ \/ \E v \in Submissions : SetStep(s, n, c, v)
              \/ RemoveStep(s, n, c)
          /\ lastCall'.err = NoError) =>
            /\ \A m \in Nodes \ {n} :
                  /\ verifiedAddresses'[m] = verifiedAddresses[m]
                  /\ hasVerifiedAddress'[m] = hasVerifiedAddress[m]
                  /\ nodeChainIds'[m] = nodeChainIds[m]
                  /\ Len(nodeChainIds'[m]) = Len(nodeChainIds[m])
                  /\ chainIdIndex'[m] = chainIdIndex[m]
            /\ \A d \in ChainIds \ {c} :
                  /\ verifiedAddresses'[n][d] = verifiedAddresses[n][d]
                  /\ hasVerifiedAddress'[n][d] = hasVerifiedAddress[n][d])]_vars

\* C29 witness: a binding of one node has just been removed while another
\* chain id of that node and a chain id of the other node are bound.
C29_Witness ==
    /\ lastCall.op = "removeVerifiedAddress"
    /\ lastCall.err = NoError
    /\ lastCall.node = TEST_NODE
    /\ lastCall.chainId = BITCOIN_CHAIN
    /\ hasVerifiedAddress[TEST_NODE][SOLANA_CHAIN]
    /\ verifiedAddresses[TEST_NODE][SOLANA_CHAIN].addr # ""
    /\ hasVerifiedAddress[TEST_NODE_2][BITCOIN_CHAIN]
    /\ verifiedAddresses[TEST_NODE_2][BITCOIN_CHAIN].addr # ""

\* C30: in every reachable state, a (node, chainId) whose hasVerifiedAddress
\* flag is false, never set or removed, has its public storage at the
\* default: the stored binding is (empty string, zero hash, 0) and the
\* recorded index is 0.
C30_NoResidue ==
    \A n \in Nodes : \A c \in ChainIds :
        ~hasVerifiedAddress[n][c] =>
            /\ verifiedAddresses[n][c] =
                  [addr |-> "", proofHash |-> ZeroHash, verifiedAt |-> 0]
            /\ chainIdIndex[n][c] = 0

\* C30 witness: a chain id recorded at a non-zero index has just been
\* removed (the list that remains still fills the slots below it), and its
\* storage is back at the default.
C30_Witness ==
    /\ lastCall.op = "removeVerifiedAddress"
    /\ lastCall.err = NoError
    /\ lastCall.node = TEST_NODE
    /\ lastCall.chainId = LongChainId
    /\ nodeChainIds[TEST_NODE] = <<BITCOIN_CHAIN, SOLANA_CHAIN>>
    /\ chainIdIndex[TEST_NODE][SOLANA_CHAIN] = 1
    /\ ~hasVerifiedAddress[TEST_NODE][LongChainId]
    /\ verifiedAddresses[TEST_NODE][LongChainId].addr = ""
    /\ chainIdIndex[TEST_NODE][LongChainId] = 0

-----------------------------------------------------------------------------
(* Further properties of the verification service.                         *)

\* a step in which POST /challenge is answered
ChallengeAnswered ==
    /\ response' # response
    /\ response'.route = "/challenge"

\* C21: a successfully issued challenge carries ensName and chain equal to
\* the lower-cased inputs, the address as it was sent and the purpose
\* 'bind-address-to-ens'; so its chain is bitcoin or solana and its ensName
\* ends in '.eth'; and answering POST /challenge changes no server state.
C21_ChallengeNormalized ==
    [][ChallengeAnswered =>
         /\ UNCHANGED <<ipfsService, inflight>>
         /\ response'.status = 200 =>
               LET req == response'.req
                   issuedChallenge == response'.body
               IN
               /\ issuedChallenge.ensName = toLowerCase(req.ensName.value)
               /\ issuedChallenge.chain = toLowerCase(req.chain.value)
               /\ issuedChallenge.address = req.address.value
               /\ issuedChallenge.purpose = "bind-address-to-ens"
               /\ issuedChallenge.chain \in {"bitcoin", "solana"}
               /\ Len(issuedChallenge.ensName) >= 4
               /\ SubSeq(issuedChallenge.ensName,
                         Len(issuedChallenge.ensName) - 3,
                         Len(issuedChallenge.ensName)) = ".eth"]_vars

\* C21 witness: a challenge was issued for a name and a chain sent with
\* capital letters, and for an address that has capital letters.
C21_Witness ==
    /\ response.route = "/challenge"
    /\ response.status = 200
    /\ response.req.ensName = Str("Alice.eth")
    /\ response.req.chain = Str("Solana")
    /\ response.body.ensName = "alice.eth"
    /\ response.body.chain = "solana"
    /\ response.body.address = WalletBitcoin
    /\ response.body.address # toLowerCase(WalletBitcoin)

\* the requests POST /verify has taken up, answered or still waiting for
\* the store, each with the calls its handler has made so far
Handled ==
    {[req |-> h.req, calls |-> h.calls] : h \in inflight}
      \cup (IF response.route = "/verify"
            THEN {[req |-> response.req, calls |-> response.calls]}
            ELSE {})

\* a request that passes the field check and the chain check
PassesChecks(req) ==
    /\ \A f \in {"chain", "address", "signature", "nonce", "message"} : ~Missing(req[f])
    /\ Supported(req.chain)

\* C25: for a POST /verify request that passes the field and chain checks
\* exactly one signature verifier is invoked, exactly once: the Bitcoin
\* verifier iff the lower-cased chain is 'bitcoin', the Solana verifier iff
\* it is 'solana'; for a request rejected by validation none is invoked.
C25_OneVerifierPerRequest ==
    \A h \in Handled :
      LET ran(fn) == Cardinality(Ran(h.calls, {fn})) IN
      IF PassesChecks(h.req)
      THEN /\ Cardinality(Ran(h.calls, Verifiers)) = 1
           /\ ran("bitcoinVerify.verifySignature") = 1
                 <=> toLowerCase(h.req.chain.value) = "bitcoin"
           /\ ran("solanaVerify.verifySignature") = 1
                 <=> toLowerCase(h.req.chain.value) = "solana"
      ELSE Ran(h.calls, Verifiers) = {}

\* C25 witness: a request sent for chain 'Solana' was verified by the Solana
\* verifier alone and answered 200.
C25_Witness ==
    /\ response.route = "/verify"
    /\ response.status = 200
    /\ response.req.chain = Str("Solana")
    /\ Len(response.calls) = 3
    /\ response.calls[1].fn = "solanaVerify.verifySignature"
    /\ Ran(response.calls, {"bitcoinVerify.verifySignature"}) = {}

\* the proof of a request as its chain, address, signature and nonce and a
\* reading of the server's clock determine it
ServerProof(req, t) ==
    << <<"chain", Str(toLowerCase(req.chain.value))>>,
       <<"address", req.address>>,
       <<"signature", req.signature>>,
       <<"nonce", req.nonce>>,
       <<"verifiedAt", Str(t)>> >>

\* C26: the verifiedAt of a Proof is a reading of the server's clock taken
\* at verification: the Proof is made of the request's chain, address,
\* signature and nonce and that reading, whatever else the body carries (a
\* verifiedAt of its own, any other extra field), and the metadata.verifiedAt
\* of the answer is the verifiedAt inside the Proof whose fingerprint the
\* answer returns.
C26_ServerAssignedTime ==
    /\ \A h \in inflight :
         h.upload # Undefined => \E t \in Times : h.proof = ServerProof(h.req, t)
    /\ (response.route = "/verify" /\ response.status = 200) =>
          \E t \in Times :
            /\ response.body.metadata.verifiedAt = t
            /\ response.body.proofHash = computeProofHash(ServerProof(response.req, t))

\* C26 witness: a request that carried a verifiedAt of its own was answered
\* 200 with the server's time.
C26_Witness ==
    /\ response.route = "/verify"
    /\ response.status = 200
    /\ "verifiedAt" \in DOMAIN response.req
    /\ response.body.metadata.verifiedAt \in Times
    /\ response.body.metadata.verifiedAt # response.req.verifiedAt.value

\* C23: every error response of the service, whatever the route and the
\* status other than 200 (400, 500, 404), has a body with an error field and
\* a message field.
C23_ErrorBodies ==
    response.status \notin {0, 200} =>
        {"error", "message"} \subseteq DOMAIN response.body

\* C27: computeProofHash is deterministic and independent of the order the
\* fields were inserted in: hashing the same proof twice gives the same
\* string, and an object with the same field names and values, inserted in
\* whatever order, has the same fingerprint.
C27_HashOrderIndependent ==
    (response.route = "computeProofHash" /\ response.status = 200) =>
        /\ response.body.again = response.body.first
        /\ response.body.reordered = response.body.first

\* C27 witness: a proof and the same fields inserted last to first have been
\* hashed.
C27_Witness ==
    /\ response.route = "computeProofHash"
    /\ response.status = 200
    /\ ObjectKeys(response.req.proof) =
          <<"chain", "address", "signature", "nonce", "verifiedAt">>
    /\ ObjectKeys(response.req.reordered) =
          <<"verifiedAt", "nonce", "signature", "address", "chain">>
    /\ \A key \in {"chain", "address", "signature", "nonce", "verifiedAt"} :
          Property(response.req.reordered, key) = Property(response.req.proof, key)

\* what the client reads of an answer: the status and, of a 200 from
\* POST /verify, the fingerprint and the metadata
Read(r) ==
    IF r.route = "/verify" /\ r.status = 200
    THEN [status |-> r.status, proofHash |-> r.body.proofHash,
          metadata |-> r.body.metadata]
    ELSE [status |-> r.status, body |-> r.body]

\* the answers a request gets when its handler runs with no other handler
\* in flight, over the readings of the clock, the identifiers drawn and the
\* outcomes of the store
Alone(route, req) ==
    IF route = "/challenge"
    THEN LET v == challengeValidate(req) IN
         IF v.failed THEN {Response(route, req, v.status, v.body, <<>>)}
         ELSE {Response(route, req, 200, challenge(req, uuid, time), <<>>) :
                 uuid \in Uuids, time \in Times}
    ELSE LET b == verifyBegin(req)
             c == verifyChecked(b.calls)
         IN
         IF b.done THEN {Response(route, req, b.status, b.body, b.calls)}
         ELSE IF c.done THEN {Response(route, req, c.status, c.body, c.calls)}
         ELSE {verifyEnd([req |-> req, proof |-> Proof(req, time), calls |-> c.calls,
                          upload |-> uploadProof(ipfsService, time, store)]) :
                 time \in Times, store \in StoreOutcomes}

\* C22: concurrent invocations do not interfere.  Whatever other handlers
\* are in flight and however their steps interleave at the awaits, the
\* status, proofHash and metadata of each answer are those the request gets
\* from its own chain, address, signature, nonce and message when it runs
\* alone; the metadata name the request's own chain and address; and no
\* handler writes the state the handlers share (the storage service).
C22_NoInterference ==
    [][/\ ipfsService' = ipfsService
       /\ response' # response =>
             /\ \E a \in Alone(response'.route, response'.req) :
                   Read(a) = Read(response')
             /\ (response'.route = "/verify" /\ response'.status = 200) =>
                   /\ response'.body.metadata.chain
                         = toLowerCase(response'.req.chain.value)
                   /\ response'.body.metadata.address = response'.req.address.value
                   /\ \E time \in Times :
                         response'.body.proofHash
                           = computeProofHash(ServerProof(response'.req, time))]_vars

\* C22 witness: a request has been answered 200 while two handlers of other
\* requests are in flight, one with its upload settled and one that has
\* called the verifier and not yet resumed.
C22_Witness ==
    /\ response.route = "/verify"
    /\ response.status = 200
    /\ \E g, h \in inflight :
         /\ g.req.chain # h.req.chain
         /\ g.upload \notin {Undefined, Pending}
         /\ h.upload = Undefined
         /\ response.req.address # g.req.address

====
